---- MODULE Spec2Model ----
(***************************************************************************)
(* Route and pricing service: the AI-assisted estimate                     *)
(* (EstimateRouteDetails.handle) and the code-based estimate               *)
(* (EstimateRouteByPincode.handle), one request at a time.                 *)
(*                                                                         *)
(* Numbers: every JS number that reaches a response is kept in hundredths  *)
(* (distance 12.50 km is 1250, price 750.00 is 75000) inside a record      *)
(* [nan, v]; NaN is [nan |-> TRUE, v |-> 0].  Binary floating point error  *)
(* below one hundredth is not modelled.                                    *)
(***************************************************************************)
EXTENDS Integers, Sequences, FiniteSets, TLC

(***************************************************************************)
(* Bounds of the model                                                     *)
(***************************************************************************)
\* Math.random() is drawn from the grid k / RandDenominator, 0 <= k < RandDenominator
RandDenominator == 1000
\* draws kept next to both ends of [0, 1)
RandEdge == 3
\* spacing of the draws kept in between
RandStride == 125

(***************************************************************************)
(* JS values                                                               *)
(***************************************************************************)
Num(n) == [nan |-> FALSE, v |-> n]
NaN == [nan |-> TRUE, v |-> 0]

\* x < 0 as JS evaluates it: false when x is NaN
JsLtZero(x) == ~x.nan /\ x.v < 0

\* the `|| 0` left out
OrZero_Identity(x) == x

\* x || 0 on a number: NaN and 0 are falsy
OrZero(x) == IF x.nan \/ x.v = 0 THEN Num(0) ELSE x

\* Math.round(n / d) for d > 0: halves go towards +infinity
MathRound(n, d) == (2 * n + d) \div (2 * d)

\* A JSON / JS field value.  t is the JS type; a string is described by its
\* numeric prefix (hasNum, n) and by whether other characters follow (junk).
FUndef == [t |-> "undefined", b |-> FALSE, n |-> 0, hasNum |-> FALSE, junk |-> FALSE]
FNull == [t |-> "null", b |-> FALSE, n |-> 0, hasNum |-> FALSE, junk |-> FALSE]
FBool(x) == [t |-> "boolean", b |-> x, n |-> 0, hasNum |-> FALSE, junk |-> FALSE]
FNum(x) == [t |-> "number", b |-> FALSE, n |-> x, hasNum |-> FALSE, junk |-> FALSE]
FStr(h, x, j) == [t |-> "string", b |-> FALSE, n |-> x, hasNum |-> h, junk |-> j]

\* Number(value)
JsNumber(f) ==
  CASE f.t = "undefined" -> NaN
    [] f.t = "null" -> Num(0)
    [] f.t = "boolean" -> Num(IF f.b THEN 100 ELSE 0)
    [] f.t = "number" -> Num(f.n)
    [] f.t = "string" -> IF f.junk THEN NaN ELSE IF f.hasNum THEN Num(f.n) ELSE Num(0)

\* parseFloat(string): the numeric prefix, NaN when there is none
JsParseFloat(f) == IF f.hasNum THEN Num(f.n) ELSE NaN

\* Boolean(value)
JsBoolean(f) ==
  CASE f.t = "undefined" -> FALSE
    [] f.t = "null" -> FALSE
    [] f.t = "boolean" -> f.b
    [] f.t = "number" -> f.n # 0
    [] f.t = "string" -> f.hasNum \/ f.junk

(***************************************************************************)
(* Request bodies: PIN codes                                               *)
(***************************************************************************)
\* a character is a digit 0..9 or the letter 'A', written 10
LetterA == 10
Absent == [present |-> FALSE, chars |-> <<>>]
Str(cs) == [present |-> TRUE, chars |-> cs]

ValidPins == { Str(<<1,1,0,0,0,1>>), Str(<<6,0,0,0,0,1>>), Str(<<6,0,0,0,5,0>>),
               Str(<<6,0,3,0,0,1>>), Str(<<6,1,5,0,0,1>>) }
InvalidPins == { Absent, Str(<<5,6,0,0,1>>), Str(<<5,6,0,0,0,LetterA>>) }
Pins == ValidPins \cup InvalidPins

\* z.string().length(6).regex(/^\d{6}$/)
PinSchemaOk(p) ==
  /\ p.present
  /\ Len(p.chars) = 6
  /\ \A i \in 1..Len(p.chars) : p.chars[i] \in 0..9

\* parseInt(pin.substring(3)): the last three digits taken for the region
Region_Last3(p) == 100 * p.chars[4] + 10 * p.chars[5] + p.chars[6]

\* parseInt(pin.substring(0, 3))
Region(p) == 100 * p.chars[1] + 10 * p.chars[2] + p.chars[3]

Abs(x) == IF x < 0 THEN -x ELSE x


(***************************************************************************)
(* Model output: text, code fences, JSON documents                         *)
(***************************************************************************)
Fields(d, h, l, o, p) ==
  [distance |-> d, hours |-> h, isLocal |-> l, isOutStation |-> o, approxPrice |-> p]

\* property reads on a value that has none of the five keys
NoFields == Fields(FUndef, FUndef, FUndef, FUndef, FUndef)

\* a JSON document: an object with its fields, null, a scalar or an array
DocObject(f) == [k |-> "object", f |-> f]
DocNull == [k |-> "null", f |-> NoFields]
DocScalar == [k |-> "scalar", f |-> NoFields]
DocArray == [k |-> "array", f |-> NoFields]
NoDoc == [k |-> "none", f |-> NoFields]

\* a text is a sequence of tokens:
\*   fence_json  ```json followed by a newline     fence  ```
\*   fence_lang  ``` followed by another language tag and a newline
\*   ws  white space     prose  characters that are not JSON     doc  a JSON document
Tok(t) == [tok |-> t, doc |-> NoDoc]
TDoc(d) == [tok |-> "doc", doc |-> d]

DistanceVals == { FUndef, FNum(-100), FNum(0), FNum(12050) }
HoursVals == { FNull, FNum(-50), FNum(225) }
IsLocalVals == { FUndef, FBool(TRUE) }
IsOutStationVals == { FBool(TRUE), FBool(FALSE), FStr(FALSE, 0, TRUE) }
ApproxPriceVals == { FUndef, FNum(75000), FNum(-100),
                     FStr(TRUE, 75000, FALSE), FStr(TRUE, -500, FALSE), FStr(FALSE, 0, TRUE) }

ObjectDocs ==
  { DocObject(Fields(d, h, l, o, p)) :
      d \in DistanceVals, h \in HoursVals, l \in IsLocalVals,
      o \in IsOutStationVals, p \in ApproxPriceVals }
Docs == ObjectDocs \cup { DocNull, DocScalar, DocArray }

\* a well-formed answer in the format the prompt asks for
ExampleDoc ==
  DocObject(Fields(FNum(12050), FNum(225), FUndef, FBool(TRUE), FStr(TRUE, 75000, FALSE)))

Texts ==
  { <<TDoc(d)>> : d \in Docs }
    \cup { <<Tok("fence_json"), TDoc(d), Tok("ws"), Tok("fence")>> : d \in Docs }
    \cup { <<Tok("fence"), TDoc(ExampleDoc), Tok("fence")>>,
           <<Tok("fence_lang"), TDoc(ExampleDoc), Tok("fence")>>,
           <<Tok("prose"), TDoc(ExampleDoc)>>,
           <<TDoc(ExampleDoc), TDoc(ExampleDoc)>>,
           <<Tok("prose")>>, <<Tok("ws")>>, <<Tok("fence_json"), Tok("fence")>> }

\* what AI.run can settle to: a rejection, a string, null, or an object whose
\* `response` property is a non-empty string, "", absent, or another object
AiThrow == [shape |-> "throw", rfield |-> "none", text |-> <<>>]
AiNull == [shape |-> "null", rfield |-> "none", text |-> <<>>]
AiString(t) == [shape |-> "string", rfield |-> "none", text |-> t]
AiObject(r, t) == [shape |-> "object", rfield |-> r, text |-> t]
NoOutcome == [shape |-> "none", rfield |-> "none", text |-> <<>>]

AiOutcomes ==
  { AiThrow, AiNull, AiObject("missing", <<>>), AiObject("empty", <<>>),
    AiObject("object", <<>>) }
    \cup { AiString(t) : t \in Texts \ { <<>> } }
    \cup { AiObject("string", t) : t \in Texts \ { <<>> } }

\* typeof response === 'string' ? response : response.response || JSON.stringify(response)
\* followed by the first use of the value as a string.  ok = FALSE is a TypeError:
\* response is null, or response.response is truthy but has no replace method.
\* A missing or empty response property is falsy, so the text is the JSON of the
\* response object itself, which has none of the five keys.
ResponseText(o) ==
  CASE o.shape = "string" -> [ok |-> TRUE, text |-> o.text]
    [] o.shape = "null" -> [ok |-> FALSE, text |-> <<>>]
    [] o.shape = "object" /\ o.rfield = "string" -> [ok |-> TRUE, text |-> o.text]
    [] o.shape = "object" /\ o.rfield \in {"missing", "empty"} ->
         [ok |-> TRUE, text |-> <<TDoc(DocObject(NoFields))>>]
    [] OTHER -> [ok |-> FALSE, text |-> <<>>]

RECURSIVE TrimStart(_)
TrimStart(t) ==
  IF t # <<>> /\ Head(t).tok = "ws" THEN TrimStart(Tail(t)) ELSE t

RECURSIVE TrimEnd(_)
TrimEnd(t) ==
  IF t # <<>> /\ t[Len(t)].tok = "ws" THEN TrimEnd(SubSeq(t, 1, Len(t) - 1)) ELSE t

\* .replace(/```json\n?/g, '').replace(/```\n?/g, '').trim()
\* the second replace takes the back-ticks of any other fence and leaves its tag
StripFence(t) ==
  [i \in 1..Len(t) |-> IF t[i].tok = "fence_lang" THEN Tok("prose") ELSE t[i]]

CleanedResponse(t) ==
  LET noJson == SelectSeq(t, LAMBDA x : x.tok # "fence_json")
      noFence == SelectSeq(StripFence(noJson), LAMBDA x : x.tok # "fence")
  IN TrimEnd(TrimStart(noFence))

\* JSON.parse: exactly one document, white space allowed around it
JsonParse(t) ==
  LET body == SelectSeq(t, LAMBDA x : x.tok # "ws")
  IN IF Len(body) = 1 /\ body[1].tok = "doc"
       THEN [ok |-> TRUE, doc |-> body[1].doc]
       ELSE [ok |-> FALSE, doc |-> NoDoc]

\* the inner try block as a whole: ok = FALSE when anything in it throws
ParseAiResponse(o) ==
  LET rt == ResponseText(o)
  IN IF rt.ok THEN JsonParse(CleanedResponse(rt.text)) ELSE [ok |-> FALSE, doc |-> NoDoc]

(***************************************************************************)
(* The heuristic fallback                                                  *)
(***************************************************************************)
RandDraws ==
  { k \in 0..(RandDenominator - 1) :
      k < RandEdge \/ k >= RandDenominator - RandEdge \/ k % RandStride = 0 }

\* the nearby band ending below a region difference of 5
Band_NearbyBelow5(regionDiff) ==
  IF regionDiff = 0 THEN [lo |-> 15, width |-> 35, speed |-> 30, isLocal |-> TRUE]
  ELSE IF regionDiff < 5 THEN [lo |-> 80, width |-> 120, speed |-> 45, isLocal |-> FALSE]
  ELSE IF regionDiff <= 20 THEN [lo |-> 200, width |-> 300, speed |-> 50, isLocal |-> FALSE]
  ELSE [lo |-> 500, width |-> 500, speed |-> 55, isLocal |-> FALSE]

\* the band chosen by regionDiff: lowest distance, width, average speed
Band(regionDiff) ==
  IF regionDiff = 0 THEN [lo |-> 15, width |-> 35, speed |-> 30, isLocal |-> TRUE]
  ELSE IF regionDiff <= 5 THEN [lo |-> 80, width |-> 120, speed |-> 45, isLocal |-> FALSE]
  ELSE IF regionDiff <= 20 THEN [lo |-> 200, width |-> 300, speed |-> 50, isLocal |-> FALSE]
  ELSE [lo |-> 500, width |-> 500, speed |-> 55, isLocal |-> FALSE]

\* the per-km rate without its first tier
FallbackPricePerKm_NoShortTier(dn) ==
  IF dn < 150 * RandDenominator THEN 15
  ELSE IF dn < 400 * RandDenominator THEN 12
  ELSE 10

\* pricePerKm of the fallback; dn is distance * RandDenominator
FallbackPricePerKm(dn) ==
  IF dn < 50 * RandDenominator THEN 12
  ELSE IF dn < 150 * RandDenominator THEN 15
  ELSE IF dn < 400 * RandDenominator THEN 12
  ELSE 10

FallbackBaseFare == 80

\* calculateFallbackPricing(fromPin, toPin) when Math.random() returns k / RandDenominator
calculateFallbackPricing(fromPin, toPin, k) ==
  LET regionDiff == Abs(Region(fromPin) - Region(toPin))
      band == Band(regionDiff)
      dn == band.lo * RandDenominator + k * band.width
      approxPrice ==
        MathRound(FallbackBaseFare * RandDenominator + dn * FallbackPricePerKm(dn),
                  RandDenominator)
  IN Fields(FNum(10 * MathRound(10 * dn, RandDenominator)),
            FNum(MathRound(100 * dn, band.speed * RandDenominator)),
            FBool(band.isLocal),
            FBool(~band.isLocal),
            FNum(100 * approxPrice))

(***************************************************************************)
(* utils/haversine: fixed-point arithmetic                                 *)
(* Angles, sines and cosines are integers in units of 1 / Scale; latitude  *)
(* and longitude are in hundredths of a degree; distances, hours and       *)
(* prices in hundredths.  The series below are exact to about 1 / Scale,   *)
(* so a computed distance is within a few km of the double-precision one   *)
(* (and equal to it when the two points coincide).                         *)
(***************************************************************************)
Scale == 10000
\* Math.PI in units of 1 / Scale
PiScaled == (31416 * Scale) \div 10000

Mul(a, b) == (a * b) \div Scale

\* toRad(value) = value * Math.PI / 180, value in hundredths of a degree
toRad(cdeg) == (cdeg * PiScaled) \div 18000

\* Math.sin(x) for 0 <= x <= pi, by its Taylor series
Sin(x) ==
  LET x2 == Mul(x, x)
      t3 == Mul(x, x2) \div 6
      t5 == Mul(t3, x2) \div 20
      t7 == Mul(t5, x2) \div 42
      t9 == Mul(t7, x2) \div 72
      t11 == Mul(t9, x2) \div 110
  IN x - t3 + t5 - t7 + t9 - t11

\* Math.cos(x) for |x| <= pi / 2
Cos(x) ==
  LET x2 == Mul(x, x)
      t2 == x2 \div 2
      t4 == Mul(t2, x2) \div 12
      t6 == Mul(t4, x2) \div 30
      t8 == Mul(t6, x2) \div 56
      t10 == Mul(t8, x2) \div 90
  IN Scale - t2 + t4 - t6 + t8 - t10

RECURSIVE SqrtIter(_, _)
SqrtIter(n, r) ==
  LET r2 == (r + n \div r) \div 2
  IN IF r2 >= r THEN r ELSE SqrtIter(n, r2)

\* the integer square root of n >= 0
ISqrt(n) == IF n = 0 THEN 0 ELSE SqrtIter(n, n)

\* Math.atan(t) for 0 <= t <= 1: halve the angle, then the Taylor series
Atan(t) ==
  LET u == (t * Scale) \div (Scale + ISqrt(Scale * Scale + t * t))
      u2 == Mul(u, u)
      t3 == Mul(u, u2)
      t5 == Mul(t3, u2)
      t7 == Mul(t5, u2)
      t9 == Mul(t7, u2)
  IN 2 * (u - t3 \div 3 + t5 \div 5 - t7 \div 7 + t9 \div 9)

\* Math.atan2(y, x) for y >= 0 and x >= 0
Atan2(y, x) ==
  IF y = 0 THEN 0
  ELSE IF y <= x THEN Atan((y * Scale) \div x)
  ELSE PiScaled \div 2 - Atan((x * Scale) \div y)

EarthRadiusKm == 6371

\* the angle c of the haversine formula, in units of 1 / Scale
CentralAngle(lat1, lon1, lat2, lon2) ==
  LET dLat == toRad(lat2 - lat1)
      dLon == toRad(lon2 - lon1)
      sLat == Sin(Abs(dLat) \div 2)
      sLon == Sin(Abs(dLon) \div 2)
      \* a in units of 1 / Scale^2
      a == sLat * sLat + Mul(Mul(Cos(toRad(lat1)), Cos(toRad(lat2))), sLon) * sLon
  IN 2 * Atan2(ISqrt(a), ISqrt(Scale * Scale - a))

\* haversineKm(lat1, lon1, lat2, lon2), in hundredths of a km
haversineKm(lat1, lon1, lat2, lon2) ==
  MathRound(EarthRadiusKm * CentralAngle(lat1, lon1, lat2, lon2), 100)

\* the first comparison written <= 50
classifyTrip_LocalUpTo50(distanceKm) ==
  IF distanceKm <= 5000
    THEN [isLocal |-> TRUE, isOutStation |-> FALSE, category |-> "local"]
  ELSE IF distanceKm < 15000
    THEN [isLocal |-> FALSE, isOutStation |-> TRUE, category |-> "short-outstation"]
  ELSE IF distanceKm < 40000
    THEN [isLocal |-> FALSE, isOutStation |-> TRUE, category |-> "medium-outstation"]
  ELSE [isLocal |-> FALSE, isOutStation |-> TRUE, category |-> "long-outstation"]

\* classifyTrip(distanceKm), distance in hundredths of a km
classifyTrip(distanceKm) ==
  IF distanceKm < 5000
    THEN [isLocal |-> TRUE, isOutStation |-> FALSE, category |-> "local"]
  ELSE IF distanceKm < 15000
    THEN [isLocal |-> FALSE, isOutStation |-> TRUE, category |-> "short-outstation"]
  ELSE IF distanceKm < 40000
    THEN [isLocal |-> FALSE, isOutStation |-> TRUE, category |-> "medium-outstation"]
  ELSE [isLocal |-> FALSE, isOutStation |-> TRUE, category |-> "long-outstation"]

\* the medium tier ending at 300 km, as the search augmentation has it
PriceTier_LongFrom300(distanceKm) ==
  IF distanceKm < 5000 THEN [pricePerKm |-> 12, baseFare |-> 50]
  ELSE IF distanceKm < 15000 THEN [pricePerKm |-> 15, baseFare |-> 80]
  ELSE IF distanceKm < 30000 THEN [pricePerKm |-> 12, baseFare |-> 100]
  ELSE [pricePerKm |-> 10, baseFare |-> 120]

\* the (pricePerKm, baseFare) tier of calculatePrice
PriceTier(distanceKm) ==
  IF distanceKm < 5000 THEN [pricePerKm |-> 12, baseFare |-> 50]
  ELSE IF distanceKm < 15000 THEN [pricePerKm |-> 15, baseFare |-> 80]
  ELSE IF distanceKm < 40000 THEN [pricePerKm |-> 12, baseFare |-> 100]
  ELSE [pricePerKm |-> 10, baseFare |-> 120]

\* calculatePrice(distanceKm, hoursEstimate), all in hundredths
calculatePrice(distanceKm, hoursEstimate) ==
  LET tier == PriceTier(distanceKm)
      timeCharge == MathRound(hoursEstimate * 120, 100)
  IN 100 * tier.baseFare + distanceKm * tier.pricePerKm + 100 * timeCharge

\* estimateTravelTime(distanceKm), in hundredths of an hour
estimateTravelTime(distanceKm) ==
  LET avgSpeed ==
        IF distanceKm < 5000 THEN 30
        ELSE IF distanceKm < 15000 THEN 45
        ELSE IF distanceKm < 40000 THEN 50
        ELSE 55
  IN MathRound(distanceKm, avgSpeed)

(***************************************************************************)
(* The lookup store (D1 table pincodes)                                    *)
(***************************************************************************)
\* a REAL column: NULL, or a number in hundredths of a degree
SqlNull == [null |-> TRUE, v |-> 0]
Real(x) == [null |-> FALSE, v |-> x]

Row(code, city, district, lat, lon) ==
  [found |-> TRUE, pincode |-> code, city |-> city, district |-> district,
   latitude |-> lat, longitude |-> lon]
\* .first() resolves to null when no row matches
NoRow ==
  [found |-> FALSE, pincode |-> Absent, city |-> "", district |-> "",
   latitude |-> SqlNull, longitude |-> SqlNull]

Delhi == Str(<<1,1,0,0,0,1>>)
Chennai == Str(<<6,0,0,0,0,1>>)
Bengaluru == Str(<<5,6,0,0,0,1>>)
NoLatCode == Str(<<6,0,3,0,0,1>>)
NoLonCode == Str(<<6,0,3,0,0,2>>)
ZeroLatCode == Str(<<9,0,0,0,0,1>>)
ZeroLonCode == Str(<<9,0,0,0,0,2>>)
Pune == Str(<<4,1,1,0,0,1>>)
UnknownCode == Str(<<9,9,9,9,9,9>>)
UnknownCode2 == Str(<<9,9,9,9,9,8>>)

\* the rows of the table; city and district are "" where the column is NULL
PincodeTable ==
  { Row(Delhi, "New Delhi", "Central Delhi", Real(2863), Real(7722)),
    Row(Chennai, "Chennai", "Chennai", Real(1308), Real(8027)),
    Row(Bengaluru, "", "Bengaluru Urban", Real(1297), Real(7759)),
    Row(NoLatCode, "Chengalpattu", "Kanchipuram", SqlNull, Real(7997)),
    Row(NoLonCode, "", "", Real(1269), SqlNull),
    Row(ZeroLatCode, "Equator", "", Real(0), Real(7700)),
    Row(ZeroLonCode, "Meridian", "", Real(1300), Real(0)),
    Row(Pune, "Pune", "Pune", Real(1852), Real(7386)),
    Row(Str(<<4,1,1,0,0,2>>), "Pune", "Pune", Real(1860), Real(7390)),
    Row(Str(<<4,1,0,5,0,1>>), "", "Pune", Real(1885), Real(7388)),
    Row(Str(<<4,1,2,1,0,1>>), "Punewadi", "Satara", Real(1770), Real(7400)),
    Row(Str(<<4,1,0,4,0,1>>), "Lonavala", "Pune Rural", Real(1875), Real(7341)),
    Row(Str(<<4,1,3,8,0,1>>), "Daund", "East Pune", Real(1846), Real(7458)),
    \* a code of 7 characters, which the column (VARCHAR(10)) admits
    Row(Str(<<6,0,0,0,0,0,0>>), "Chennai", "Chennai", Real(1308), Real(8027)) }
    \cup { Row(Str(<<6,0,0,0,a,b>>), "Chennai", "Chennai", Real(1308), Real(8027)) :
             a \in 0..9, b \in 0..9 }

Codes ==
  { Delhi, Chennai, Bengaluru, NoLatCode, NoLonCode, ZeroLatCode, ZeroLonCode,
    UnknownCode, UnknownCode2, Str(<<5,6,0,0,1>>) }

\* SELECT ... FROM pincodes WHERE pincode = ?  (.first())
Lookup(code) ==
  IF \E r \in PincodeTable : r.pincode = code
    THEN CHOOSE r \in PincodeTable : r.pincode = code
    ELSE NoRow

\* JS truthiness of a column value: NULL and 0 are falsy
Truthy(col) == ~col.null /\ col.v # 0

\* row.city || row.district || 'Unknown'
LocationName(row) ==
  IF row.city # "" THEN row.city
  ELSE IF row.district # "" THEN row.district
  ELSE "Unknown"

(***************************************************************************)
(* Text: a string is a sequence of one-character strings                   *)
(***************************************************************************)
UpperCase == <<"A", "B", "C", "D", "E", "F", "G", "H", "I", "J", "K", "L", "M", "N", "O", "P", "Q", "R", "S", "T", "U", "V", "W", "X", "Y", "Z">>
LowerCase == <<"a", "b", "c", "d", "e", "f", "g", "h", "i", "j", "k", "l", "m", "n", "o", "p", "q", "r", "s", "t", "u", "v", "w", "x", "y", "z">>
DigitChars == <<"0", "1", "2", "3", "4", "5", "6", "7", "8", "9">>

\* toLowerCase() and SQL LOWER() on an ASCII character
LowerChar(c) ==
  IF \E i \in 1..Len(UpperCase) : UpperCase[i] = c
    THEN LowerCase[CHOOSE i \in 1..Len(UpperCase) : UpperCase[i] = c]
    ELSE c

toLowerCase(s) == [i \in 1..Len(s) |-> LowerChar(s[i])]

\* the characters of a code
CodeText(code) ==
  [i \in 1..Len(code.chars) |->
     IF code.chars[i] = LetterA THEN "A" ELSE DigitChars[code.chars[i] + 1]]

\* the characters of the names stored in the table
Spelling(name) ==
  CASE name = "New Delhi" -> <<"N", "e", "w", " ", "D", "e", "l", "h", "i">>
    [] name = "Central Delhi" -> <<"C", "e", "n", "t", "r", "a", "l", " ", "D", "e", "l", "h", "i">>
    [] name = "Chennai" -> <<"C", "h", "e", "n", "n", "a", "i">>
    [] name = "Bengaluru Urban" -> <<"B", "e", "n", "g", "a", "l", "u", "r", "u", " ", "U", "r", "b", "a", "n">>
    [] name = "Chengalpattu" -> <<"C", "h", "e", "n", "g", "a", "l", "p", "a", "t", "t", "u">>
    [] name = "Kanchipuram" -> <<"K", "a", "n", "c", "h", "i", "p", "u", "r", "a", "m">>
    [] name = "Equator" -> <<"E", "q", "u", "a", "t", "o", "r">>
    [] name = "Meridian" -> <<"M", "e", "r", "i", "d", "i", "a", "n">>
    [] name = "Pune" -> <<"P", "u", "n", "e">>
    [] name = "Punewadi" -> <<"P", "u", "n", "e", "w", "a", "d", "i">>
    [] name = "Satara" -> <<"S", "a", "t", "a", "r", "a">>
    [] name = "Lonavala" -> <<"L", "o", "n", "a", "v", "a", "l", "a">>
    [] name = "Pune Rural" -> <<"P", "u", "n", "e", " ", "R", "u", "r", "a", "l">>
    [] name = "Daund" -> <<"D", "a", "u", "n", "d">>
    [] name = "East Pune" -> <<"E", "a", "s", "t", " ", "P", "u", "n", "e">>

\* text LIKE pattern as SQLite evaluates it: % matches any run of characters,
\* _ matches any one character, every other character matches itself, ASCII
\* letters without regard to case
RECURSIVE Like(_, _)
Like(text, pattern) ==
  IF pattern = <<>> THEN text = <<>>
  ELSE IF Head(pattern) = "%"
    THEN Like(text, Tail(pattern)) \/ (text # <<>> /\ Like(Tail(text), pattern))
  ELSE IF text = <<>> THEN FALSE
  ELSE IF Head(pattern) = "_" THEN Like(Tail(text), Tail(pattern))
  ELSE LowerChar(Head(text)) = LowerChar(Head(pattern)) /\ Like(Tail(text), Tail(pattern))

\* a < b for two texts of digits, character by character (ORDER BY pincode ASC)
TextLess(a, b) ==
  \E i \in 1..(Len(a) + 1) :
    /\ \A j \in 1..(i - 1) : j <= Len(b) /\ a[j] = b[j]
    /\ \/ i = Len(a) + 1 /\ Len(b) >= i
       \/ i <= Len(a) /\ i <= Len(b) /\ a[i] < b[i]

(***************************************************************************)
(* Requests and responses                                                  *)
(***************************************************************************)
VARIABLES
  pc,            \* where the request in progress is suspended
  endpoint,      \* the operation that serves it
  body,          \* the request body
  aiCalls,       \* AI.run calls issued for this request
  fallbackCalls, \* calculateFallbackPricing calls made for this request
  dbCalls,       \* lookup queries issued for this request
  aiOut,         \* what AI.run settled to
  fromQuery,     \* the origin row, once the lookup returned
  toQuery,       \* the destination row, once the lookup returned
  resp,          \* status and envelope of the response
  result,        \* the `result` of a success response
  inflight,      \* external calls issued for this request and not yet settled
  failedCalls,   \* external calls of this request that rejected
  fn,            \* the utility function applied on its own, "none" before
  fnArgs,        \* its arguments
  fnResult,      \* what it returned
  mysqlRows,     \* geo_pincode_master: the pincodes of its rows with coordinates, in order
  d1,            \* the pincodes of the rows of the D1 table pincodes
  script,        \* where a run of the migration script stands
  rows,          \* migrateMySQLtoD1: the rows fetched
  existingPincodes, \* the set getExistingPincodes returned
  existingAnswered, \* whether its wrangler command and JSON.parse succeeded
  newRecords,    \* the rows left after the filter
  skippedCount,
  batchIndex,    \* i of the batch loop
  importedCount,
  errorCount,
  run,           \* runs of the script started so far
  d1Before,      \* d1 when the current run started
  previousRun    \* how the run before the current one ended

\* the state of a request in progress
requestVars ==
  <<pc, endpoint, body, aiCalls, fallbackCalls, dbCalls, aiOut, fromQuery, toQuery,
    resp, result, inflight, failedCalls>>
\* the state of a utility function applied on its own
utilVars == <<fn, fnArgs, fnResult>>

\* the state of the migration script and of the two databases
migrationVars ==
  <<mysqlRows, d1, script, rows, existingPincodes, existingAnswered, newRecords,
    skippedCount, batchIndex, importedCount, errorCount, run, d1Before, previousRun>>

vars == <<requestVars, utilVars, migrationVars>>

NoResp == [status |-> 0, success |-> FALSE, code |-> 0, message |-> "", subject |-> Absent]
NoResult == [kind |-> "none"]
NoBody == [fromPin |-> Absent, toPin |-> Absent]
\* a row variable that no lookup has filled yet
Unset == [NoRow EXCEPT !.city = "unset"]

Ok200 == [status |-> 200, success |-> TRUE, code |-> 0, message |-> "", subject |-> Absent]
\* c.json({ success: false, errors: [{ code, message }] }, status); subject is the
\* pincode the message text quotes, if it quotes one
ErrorResp(status, code, message, subject) ==
  [status |-> status, success |-> FALSE, code |-> code, message |-> message,
   subject |-> subject]

NoArgs == [f |-> "none"]
NoReturn == [f |-> "none"]

\* no request has been received
RequestIdle ==
  /\ pc = "idle"
  /\ endpoint = "none"
  /\ body = NoBody
  /\ aiCalls = 0
  /\ fallbackCalls = 0
  /\ dbCalls = 0
  /\ aiOut = NoOutcome
  /\ fromQuery = Unset
  /\ toQuery = Unset
  /\ resp = NoResp
  /\ result = NoResult
  /\ inflight = 0
  /\ failedCalls = 0

\* no utility function is being applied on its own
UtilIdle ==
  /\ fn = "none"
  /\ fnArgs = NoArgs
  /\ fnResult = NoReturn

NoRun == [ended |-> "none", rows |-> 0, imported |-> 0, skipped |-> 0, errors |-> 0]

\* the locals of migrateMySQLtoD1 before a run
ScriptIdle ==
  /\ script = "idle"
  /\ rows = <<>>
  /\ existingPincodes = {}
  /\ existingAnswered = FALSE
  /\ newRecords = <<>>
  /\ skippedCount = 0
  /\ batchIndex = 0
  /\ importedCount = 0
  /\ errorCount = 0

\* the migration script is not run
MigrationIdle ==
  /\ ScriptIdle
  /\ mysqlRows = <<>>
  /\ d1 = {}
  /\ run = 0
  /\ d1Before = {}
  /\ previousRun = NoRun

Init == RequestIdle /\ UtilIdle /\ MigrationIdle

\* the response has been returned; the next request starts from scratch
Finish ==
  /\ pc = "done"
  /\ pc' = "idle"
  /\ endpoint' = "none"
  /\ body' = NoBody
  /\ aiCalls' = 0
  /\ fallbackCalls' = 0
  /\ dbCalls' = 0
  /\ aiOut' = NoOutcome
  /\ fromQuery' = Unset
  /\ toQuery' = Unset
  /\ resp' = NoResp
  /\ result' = NoResult
  /\ inflight' = 0
  /\ failedCalls' = 0
  /\ UNCHANGED <<utilVars, migrationVars>>

(***************************************************************************)
(* POST /routes/estimate: EstimateRouteDetails.handle                      *)
(***************************************************************************)
ReceiveEstimate ==
  /\ pc = "idle"
  /\ \E f \in Pins, t \in Pins : body' = [fromPin |-> f, toPin |-> t]
  /\ endpoint' = "estimate"
  /\ pc' = "estimate_validate"
  /\ UNCHANGED <<aiCalls, fallbackCalls, dbCalls, aiOut, fromQuery, toQuery, resp, result>>
  /\ UNCHANGED <<inflight, failedCalls, utilVars, migrationVars>>

\* the outer catch: every error raised in handle becomes a 500 with code 5001
EstimateCatch(message) == ErrorResp(500, 5001, message, Absent)

\* await this.getValidatedData(): rejects when the body fails the schema, and the
\* rejection is raised inside the try block of handle; otherwise the prompt is
\* built and AI.run is called
EstimateValidate ==
  /\ pc = "estimate_validate"
  /\ IF PinSchemaOk(body.fromPin) /\ PinSchemaOk(body.toPin)
       THEN /\ aiCalls' = aiCalls + 1
            /\ inflight' = inflight + 1
            /\ pc' = "estimate_ai"
            /\ UNCHANGED resp
       ELSE /\ resp' = EstimateCatch("validation")
            /\ pc' = "done"
            /\ UNCHANGED <<aiCalls, inflight>>
  /\ UNCHANGED <<endpoint, body, fallbackCalls, dbCalls, aiOut, fromQuery, toQuery, result>>
  /\ UNCHANGED <<failedCalls, utilVars, migrationVars>>

\* approxPrice: typeof x === 'string' ? parseFloat(x) : Number(x) || 0
CoercePrice(f) == IF f.t = "string" THEN JsParseFloat(f) ELSE OrZero(JsNumber(f))

\* "Validate and sanitize the result"
Sanitize(fromPin, toPin, f) ==
  [kind |-> "estimate",
   fromPin |-> fromPin,
   toPin |-> toPin,
   distance |-> OrZero(JsNumber(f.distance)),
   hours |-> OrZero(JsNumber(f.hours)),
   isLocal |-> JsBoolean(f.isLocal),
   isOutStation |-> JsBoolean(f.isOutStation),
   approxPrice |-> CoercePrice(f.approxPrice)]

\* the check of approxPrice left out
SanityFails_NoPrice(r) == JsLtZero(r.distance) \/ JsLtZero(r.hours)

\* "Sanity checks"
SanityFails(r) == JsLtZero(r.distance) \/ JsLtZero(r.hours) \/ JsLtZero(r.approxPrice)

\* the inner catch logs the parse error and leaves aiResult unassigned
EstimateAfterAi_NoFallback(fromPin, toPin, o, k) ==
  LET parsed == ParseAiResponse(o)
      r == Sanitize(fromPin, toPin, parsed.doc.f)
  IN IF ~parsed.ok \/ parsed.doc.k = "null"
       THEN [resp |-> EstimateCatch("TypeError"), result |-> NoResult]
     ELSE IF SanityFails(r)
       THEN [resp |-> EstimateCatch("Invalid calculation result from AI"),
             result |-> NoResult]
     ELSE [resp |-> Ok200, result |-> r]

\* handle from the line after AI.run returned `o` to its return; k is the draw
\* Math.random() makes if calculateFallbackPricing runs
EstimateAfterAi(fromPin, toPin, o, k) ==
  LET parsed == ParseAiResponse(o)
      aiResult ==
        IF parsed.ok THEN parsed.doc
        ELSE DocObject(calculateFallbackPricing(fromPin, toPin, k))
      r == Sanitize(fromPin, toPin, aiResult.f)
  IN IF aiResult.k = "null"
       THEN [resp |-> EstimateCatch("TypeError"), result |-> NoResult]
     ELSE IF SanityFails(r)
       THEN [resp |-> EstimateCatch("Invalid calculation result from AI"),
             result |-> NoResult]
     ELSE [resp |-> Ok200, result |-> r]

\* AI.run settles and handle runs to its end
EstimateAiSettles ==
  /\ pc = "estimate_ai"
  /\ \E o \in AiOutcomes :
       /\ aiOut' = o
       /\ failedCalls' = IF o.shape = "throw" THEN failedCalls + 1 ELSE failedCalls
       /\ IF o.shape = "throw"
            THEN /\ resp' = EstimateCatch("AI.run rejected")
                 /\ UNCHANGED <<result, fallbackCalls>>
          ELSE IF ParseAiResponse(o).ok
            THEN LET out == EstimateAfterAi(body.fromPin, body.toPin, o, 0)
                 IN /\ resp' = out.resp
                    /\ result' = out.result
                    /\ UNCHANGED fallbackCalls
          ELSE \E k \in RandDraws :
                 LET out == EstimateAfterAi(body.fromPin, body.toPin, o, k)
                 IN /\ resp' = out.resp
                    /\ result' = out.result
                    /\ fallbackCalls' = fallbackCalls + 1
  /\ inflight' = inflight - 1
  /\ pc' = "done"
  /\ UNCHANGED <<endpoint, body, aiCalls, dbCalls, fromQuery, toQuery>>
  /\ UNCHANGED <<utilVars, migrationVars>>

(***************************************************************************)
(* POST /routes/estimate-by-pincode: EstimateRouteByPincode.handle         *)
(***************************************************************************)
ReceivePincode ==
  /\ pc = "idle"
  /\ \E f \in Codes, t \in Codes : body' = [fromPincode |-> f, toPincode |-> t]
  /\ endpoint' = "estimate-by-pincode"
  /\ pc' = "pincode_validate"
  /\ UNCHANGED <<aiCalls, fallbackCalls, dbCalls, aiOut, fromQuery, toQuery, resp, result>>
  /\ UNCHANGED <<inflight, failedCalls, utilVars, migrationVars>>

FromNotFound(fromPincode) ==
  ErrorResp(404, 4041, "FROM pincode not found in database", fromPincode)

\* the FROM branch copied for TO with its code and text left as they were
ToNotFound_CopiedFrom(toPincode) ==
  ErrorResp(404, 4041, "FROM pincode not found in database", toPincode)

ToNotFound(toPincode) ==
  ErrorResp(404, 4042, "TO pincode not found in database", toPincode)

\* the catch of handle: every error raised in it becomes a 500 with code 5003
PincodeCatch(message) == ErrorResp(500, 5003, message, Absent)

\* both queries issued together, as Promise.all would
PincodeValidate_BothAtOnce ==
  /\ pc = "pincode_validate"
  /\ IF PinSchemaOk(body.fromPincode) /\ PinSchemaOk(body.toPincode)
       THEN /\ dbCalls' = dbCalls + 2
            /\ inflight' = inflight + 2
            /\ pc' = "pincode_from"
            /\ UNCHANGED resp
       ELSE /\ resp' = PincodeCatch("validation")
            /\ pc' = "done"
            /\ UNCHANGED <<dbCalls, inflight>>
  /\ UNCHANGED <<endpoint, body, aiCalls, fallbackCalls, aiOut, fromQuery, toQuery, result>>
  /\ UNCHANGED <<failedCalls, utilVars, migrationVars>>

\* await this.getValidatedData(), then the query for the FROM pincode is issued
PincodeValidate ==
  /\ pc = "pincode_validate"
  /\ IF PinSchemaOk(body.fromPincode) /\ PinSchemaOk(body.toPincode)
       THEN /\ dbCalls' = dbCalls + 1
            /\ inflight' = inflight + 1
            /\ pc' = "pincode_from"
            /\ UNCHANGED resp
       ELSE /\ resp' = PincodeCatch("validation")
            /\ pc' = "done"
            /\ UNCHANGED <<dbCalls, inflight>>
  /\ UNCHANGED <<endpoint, body, aiCalls, fallbackCalls, aiOut, fromQuery, toQuery, result>>
  /\ UNCHANGED <<failedCalls, utilVars, migrationVars>>

\* the FROM query settles: it rejects, finds no row, or finds the row, and then
\* the query for the TO pincode is issued
PincodeFromSettles ==
  /\ pc = "pincode_from"
  /\ \E answered \in BOOLEAN :
       IF ~answered
         THEN /\ resp' = PincodeCatch("D1 query rejected")
              /\ pc' = "done"
              /\ inflight' = inflight - 1
              /\ failedCalls' = failedCalls + 1
              /\ UNCHANGED <<fromQuery, dbCalls>>
       ELSE LET row == Lookup(body.fromPincode)
            IN /\ fromQuery' = row
               /\ UNCHANGED failedCalls
               /\ IF ~row.found
                    THEN /\ resp' = FromNotFound(body.fromPincode)
                         /\ pc' = "done"
                         /\ inflight' = inflight - 1
                         /\ UNCHANGED dbCalls
                    ELSE /\ dbCalls' = dbCalls + 1
                         /\ inflight' = inflight - 1 + 1
                         /\ pc' = "pincode_to"
                         /\ UNCHANGED resp
  /\ UNCHANGED <<endpoint, body, aiCalls, fallbackCalls, aiOut, toQuery, result>>
  /\ UNCHANGED <<utilVars, migrationVars>>

\* the tag of the coordinate estimate given to the code-based one
PincodeMethod_Plain == "haversine"

\* the method tag of the code-based estimate
PincodeMethod == "haversine-with-d1-lookup"

\* handle from the coordinate checks to its return, for two rows that were found
PincodeCompute(fromPincode, toPincode, fromRow, toRow) ==
  IF ~Truthy(fromRow.latitude) \/ ~Truthy(fromRow.longitude)
    THEN [resp |-> ErrorResp(404, 4043, "FROM pincode has no coordinates in database",
                             fromPincode),
          result |-> NoResult]
  ELSE IF ~Truthy(toRow.latitude) \/ ~Truthy(toRow.longitude)
    THEN [resp |-> ErrorResp(404, 4044, "TO pincode has no coordinates in database",
                             toPincode),
          result |-> NoResult]
  ELSE
    LET fromLat == fromRow.latitude.v
        fromLon == fromRow.longitude.v
        toLat == toRow.latitude.v
        toLon == toRow.longitude.v
        distance == haversineKm(fromLat, fromLon, toLat, toLon)
        \* Math.round((distance / 50) * 100) / 100
        hours == MathRound(distance, 50)
        tripClassification == classifyTrip(distance)
        approxPrice == calculatePrice(distance, hours)
    IN [resp |-> Ok200,
        result |->
          [kind |-> "estimate-by-pincode",
           fromPincode |-> fromPincode,
           fromLocation |-> LocationName(fromRow),
           fromCoordinates |-> [lat |-> fromLat, lon |-> fromLon],
           toPincode |-> toPincode,
           toLocation |-> LocationName(toRow),
           toCoordinates |-> [lat |-> toLat, lon |-> toLon],
           distance |-> distance,
           hours |-> hours,
           isLocal |-> tripClassification.isLocal,
           isOutStation |-> tripClassification.isOutStation,
           category |-> tripClassification.category,
           approxPrice |-> approxPrice,
           method |-> PincodeMethod]]

\* the TO query settles and handle runs to its end
PincodeToSettles ==
  /\ pc = "pincode_to"
  /\ \E answered \in BOOLEAN :
       IF ~answered
         THEN /\ resp' = PincodeCatch("D1 query rejected")
              /\ failedCalls' = failedCalls + 1
              /\ UNCHANGED <<toQuery, result>>
       ELSE LET row == Lookup(body.toPincode)
            IN /\ toQuery' = row
               /\ UNCHANGED failedCalls
               /\ IF ~row.found
                    THEN /\ resp' = ToNotFound(body.toPincode)
                         /\ UNCHANGED result
                    ELSE LET out == PincodeCompute(body.fromPincode, body.toPincode,
                                                   fromQuery, row)
                         IN /\ resp' = out.resp
                            /\ result' = out.result
  /\ inflight' = inflight - 1
  /\ pc' = "done"
  /\ UNCHANGED <<endpoint, body, aiCalls, fallbackCalls, dbCalls, aiOut, fromQuery>>
  /\ UNCHANGED <<utilVars, migrationVars>>

(***************************************************************************)
(* POST /pincodes/search: SearchPincodes.handle (searchPincodes.ts)        *)
(***************************************************************************)
SearchQueries ==
  { <<"p", "u">>,
    <<"p", "u", "n", "e">>, <<"P", "u", "n", "e">>, <<"P", "U", "N">>,
    <<"c", "h", "e">>, <<"c", "h", "e", "n", "n", "a", "i">>, <<"n", "a", "i">>,
    <<"d", "e", "l", "h", "i">>, <<"x", "y", "z">>,
    <<"p", "_", "n", "e">>, <<"p", "u", "n", "%">>,
    <<"6", "0">>, <<"6", "0", "0">>, <<"6", "0", "0", "0", "0">>,
    <<"6", "0", "0", "0", "0", "1">>, <<"4", "1", "0">>, <<"9", "9", "9">>,
    <<"5", "6", "0">>, <<"4", "1", "1">>,
    <<"6", "0", "0", "a">> }

SearchOrigins ==
  { Absent, Chennai, Delhi, Pune, NoLatCode, ZeroLonCode, UnknownCode, Str(<<5,6,0,0,1>>) }

ReceiveSearch ==
  /\ pc = "idle"
  /\ \E q \in SearchQueries, f \in SearchOrigins : body' = [query |-> q, fromPincode |-> f]
  /\ endpoint' = "search"
  /\ pc' = "search_validate"
  /\ UNCHANGED <<aiCalls, fallbackCalls, dbCalls, aiOut, fromQuery, toQuery, resp, result>>
  /\ UNCHANGED <<inflight, failedCalls, utilVars, migrationVars>>

\* query: z.string().min(3).max(50); fromPincode: optional, 6 digits
SearchSchemaOk(b) ==
  /\ Len(b.query) >= 3
  /\ Len(b.query) <= 50
  /\ b.fromPincode.present => PinSchemaOk(b.fromPincode)

\* the catch of handle: every error raised in it becomes a 400 with code 5004
SearchCatch(message) == ErrorResp(400, 5004, message, Absent)

\* await this.getValidatedData(); then the first query is issued: the one for the
\* FROM pincode when there is one, the search itself otherwise
SearchValidate ==
  /\ pc = "search_validate"
  /\ IF SearchSchemaOk(body)
       THEN /\ dbCalls' = dbCalls + 1
            /\ inflight' = inflight + 1
            /\ pc' = IF body.fromPincode.present THEN "search_from" ELSE "search_query"
            /\ UNCHANGED resp
       ELSE /\ resp' = SearchCatch("validation")
            /\ pc' = "done"
            /\ UNCHANGED <<dbCalls, inflight>>
  /\ UNCHANGED <<endpoint, body, aiCalls, fallbackCalls, aiOut, fromQuery, toQuery, result>>
  /\ UNCHANGED <<failedCalls, utilVars, migrationVars>>

\* the FROM query settles; unless it rejected, the search query is issued
SearchFromSettles ==
  /\ pc = "search_from"
  /\ \E answered \in BOOLEAN :
       IF ~answered
         THEN /\ resp' = SearchCatch("D1 query rejected")
              /\ pc' = "done"
              /\ inflight' = inflight - 1
              /\ failedCalls' = failedCalls + 1
              /\ UNCHANGED <<fromQuery, dbCalls>>
       ELSE /\ fromQuery' = Lookup(body.fromPincode)
            /\ dbCalls' = dbCalls + 1
            /\ inflight' = inflight - 1 + 1
            /\ pc' = "search_query"
            /\ UNCHANGED <<resp, failedCalls>>
  /\ UNCHANGED <<endpoint, body, aiCalls, fallbackCalls, aiOut, toQuery, result>>
  /\ UNCHANGED <<utilVars, migrationVars>>

\* /^\d+$/.test(searchQuery)
isNumeric(searchQuery) ==
  /\ searchQuery # <<>>
  /\ \A i \in 1..Len(searchQuery) : \E d \in 1..Len(DigitChars) : DigitChars[d] = searchQuery[i]

\* LOWER(column) = ?, with NULL (written "") never equal to anything
LowerEquals(name, text) == name # "" /\ toLowerCase(Spelling(name)) = text

\* LOWER(column) LIKE ?, with NULL never like anything
LowerLike(name, pattern) == name # "" /\ Like(toLowerCase(Spelling(name)), pattern)

\* the CASE expression of the city search
Relevance(row, searchPattern) ==
  IF LowerEquals(row.city, searchPattern) THEN 1
  ELSE IF LowerEquals(row.district, searchPattern) THEN 2
  ELSE IF LowerLike(row.city, searchPattern \o <<"%">>) THEN 3
  ELSE IF LowerLike(row.district, searchPattern \o <<"%">>) THEN 4
  ELSE 5

\* the pattern bound as `%${query}%`
PincodeRows_Contains(query) ==
  { [row |-> r, relevance |-> 0] :
      r \in { t \in PincodeTable :
                Like(CodeText(t.pincode), <<"%">> \o query \o <<"%">>) } }

\* WHERE pincode LIKE ?, bound to `${query}%`
PincodeRows(query) ==
  { [row |-> r, relevance |-> 0] :
      r \in { t \in PincodeTable : Like(CodeText(t.pincode), query \o <<"%">>) } }

\* WHERE LOWER(city) LIKE ? OR LOWER(district) LIKE ?, both bound to `%${searchPattern}%`
CityRows(searchPattern) ==
  { [row |-> r, relevance |-> Relevance(r, searchPattern)] :
      r \in { t \in PincodeTable :
                \/ LowerLike(t.city, <<"%">> \o searchPattern \o <<"%">>)
                \/ LowerLike(t.district, <<"%">> \o searchPattern \o <<"%">>) } }

\* ORDER BY relevance ASC, pincode ASC
RowBefore(a, b) ==
  \/ a.relevance < b.relevance
  \/ a.relevance = b.relevance /\ TextLess(a.row.pincode.chars, b.row.pincode.chars)

\* ORDER BY ... LIMIT limit: the first rows in order, as .all() returns them
RECURSIVE OrderByLimit(_, _)
OrderByLimit(selected, limit) ==
  IF limit = 0 \/ selected = {} THEN <<>>
  ELSE LET first == CHOOSE a \in selected : \A b \in selected \ {a} : RowBefore(a, b)
       IN <<first.row>> \o OrderByLimit(selected \ {first}, limit - 1)

\* the search query of handle: the rows D1 returns for searchQuery
SearchRows(searchQuery) ==
  IF isNumeric(searchQuery)
    THEN OrderByLimit(PincodeRows(searchQuery), 10)
    ELSE OrderByLimit(CityRows(toLowerCase(searchQuery)), 10)

NoCoords == [known |-> FALSE, lat |-> 0, lon |-> 0]
\* fromCoords: set when the FROM row exists with a truthy latitude and longitude
FromCoords(fromRow) ==
  IF fromRow.found /\ Truthy(fromRow.latitude) /\ Truthy(fromRow.longitude)
    THEN [known |-> TRUE, lat |-> fromRow.latitude.v, lon |-> fromRow.longitude.v]
    ELSE NoCoords

NoRouteEstimation ==
  [present |-> FALSE, distance |-> 0, hours |-> 0, category |-> "", approxPrice |-> 0]

\* straightLineDistance is kept in units of 1 / StraightPerKm km
StraightPerKm == Scale \div 10

\* the factor bands taken without their upper ends
RoadFactor_BandsBelow(straightLineDistance) ==
  IF straightLineDistance >= 150 * StraightPerKm THEN 130
  ELSE IF straightLineDistance >= 50 * StraightPerKm THEN 135
  ELSE 140

\* roadFactor, in hundredths
RoadFactor(straightLineDistance) ==
  IF straightLineDistance > 150 * StraightPerKm THEN 130
  ELSE IF straightLineDistance > 50 * StraightPerKm THEN 135
  ELSE 140

\* Math.round(straightLineDistance * roadFactor * 100) / 100, in hundredths of a km
RoadDistance(straightLineDistance) ==
  MathRound(straightLineDistance * RoadFactor(straightLineDistance), StraightPerKm)

\* the city speed of estimateTravelTime for a local distance
SearchAvgSpeed_City30(distance) == IF distance <= 5000 THEN 30 ELSE 50

\* avgSpeed = distance <= 50 ? 40 : 50
SearchAvgSpeed(distance) == IF distance <= 5000 THEN 40 ELSE 50

\* R * c of the handler, in units of 1 / StraightPerKm km
StraightLineDistance(fromLat, fromLon, toLat, toLon) ==
  (EarthRadiusKm * CentralAngle(fromLat, fromLon, toLat, toLon)) \div 10

\* result.routeEstimation for a result with coordinates, all in hundredths
RouteEstimation(fromCoords, toLat, toLon) ==
  LET straightLineDistance ==
        StraightLineDistance(fromCoords.lat, fromCoords.lon, toLat, toLon)
      distance == RoadDistance(straightLineDistance)
      avgSpeed == SearchAvgSpeed(distance)
      hours == MathRound(distance, avgSpeed)
      category ==
        IF distance > 30000 THEN "long-outstation"
        ELSE IF distance > 15000 THEN "medium-outstation"
        ELSE IF distance > 5000 THEN "short-outstation"
        ELSE "local"
      baseRate == IF distance <= 5000 THEN 500 ELSE 800
      perKm == IF distance <= 5000 THEN 15 ELSE 12
      approxPrice == 100 * MathRound(100 * baseRate + distance * perKm, 100)
  IN [present |-> TRUE, distance |-> distance, hours |-> hours, category |-> category,
      approxPrice |-> approxPrice]

\* one element of formattedResults; a null city, latitude or longitude is "" or SqlNull
FormatResult(row, fromCoords) ==
  LET latitude == IF Truthy(row.latitude) THEN row.latitude ELSE SqlNull
      longitude == IF Truthy(row.longitude) THEN row.longitude ELSE SqlNull
  IN [display |-> <<row.pincode, LocationName(row)>>,
      pincode |-> row.pincode,
      city |-> row.city,
      district |-> row.district,
      latitude |-> latitude,
      longitude |-> longitude,
      routeEstimation |->
        IF fromCoords.known /\ ~latitude.null /\ ~longitude.null
          THEN RouteEstimation(fromCoords, latitude.v, longitude.v)
          ELSE NoRouteEstimation]

\* handle from the rows of the search query to its return
SearchResult(searchQuery, fromRow, results) ==
  LET fromCoords == FromCoords(fromRow)
      formattedResults == [i \in 1..Len(results) |-> FormatResult(results[i], fromCoords)]
  IN [kind |-> "search", query |-> searchQuery, count |-> Len(formattedResults),
      results |-> formattedResults]

\* the search query settles and handle runs to its end
SearchQuerySettles ==
  /\ pc = "search_query"
  /\ \E answered \in BOOLEAN :
       IF ~answered
         THEN /\ resp' = SearchCatch("D1 query rejected")
              /\ failedCalls' = failedCalls + 1
              /\ UNCHANGED result
       ELSE /\ resp' = Ok200
            /\ result' = SearchResult(body.query, fromQuery, SearchRows(body.query))
            /\ UNCHANGED failedCalls
  /\ inflight' = inflight - 1
  /\ pc' = "done"
  /\ UNCHANGED <<endpoint, body, aiCalls, fallbackCalls, dbCalls, aiOut, fromQuery, toQuery>>
  /\ UNCHANGED <<utilVars, migrationVars>>

(***************************************************************************)
(* The pincode-prefix search: SearchPincodes.handle of the second file in  *)
(* estimateRouteDetails.ts                                                 *)
(***************************************************************************)
PrefixQueries ==
  { Absent, Str(<<6,0,0>>), Str(<<6,0,0,0>>), Str(<<6,0,0,0,0>>), Str(<<6,0,0,0,0,1>>),
    Str(<<4,1,0,5>>), Str(<<9,9,9,9>>), Str(<<6,0,0,0,0,0,0>>), Str(<<6,0,0,LetterA>>) }

ReceivePrefixSearch ==
  /\ pc = "idle"
  /\ \E p \in PrefixQueries : body' = [pincode |-> p]
  /\ endpoint' = "pincode-prefix-search"
  /\ pc' = "prefix_validate"
  /\ UNCHANGED <<aiCalls, fallbackCalls, dbCalls, aiOut, fromQuery, toQuery, resp, result>>
  /\ UNCHANGED <<inflight, failedCalls, utilVars, migrationVars>>

\* z.string().min(4).max(6).regex(/^\d+$/)
PrefixSchemaOk(p) ==
  /\ p.present
  /\ Len(p.chars) >= 4
  /\ Len(p.chars) <= 6
  /\ \A i \in 1..Len(p.chars) : p.chars[i] \in 0..9

PrefixValidate ==
  /\ pc = "prefix_validate"
  /\ IF PrefixSchemaOk(body.pincode)
       THEN /\ dbCalls' = dbCalls + 1
            /\ inflight' = inflight + 1
            /\ pc' = "prefix_query"
            /\ UNCHANGED resp
       ELSE /\ resp' = SearchCatch("validation")
            /\ pc' = "done"
            /\ UNCHANGED <<dbCalls, inflight>>
  /\ UNCHANGED <<endpoint, body, aiCalls, fallbackCalls, aiOut, fromQuery, toQuery, result>>
  /\ UNCHANGED <<failedCalls, utilVars, migrationVars>>

\* one element of formattedResults of the prefix search
FormatPincode(row) ==
  [pincode |-> row.pincode,
   location |-> LocationName(row),
   district |-> row.district,
   latitude |-> IF Truthy(row.latitude) THEN row.latitude ELSE SqlNull,
   longitude |-> IF Truthy(row.longitude) THEN row.longitude ELSE SqlNull]

\* handle from the query to its return: WHERE pincode LIKE ? ORDER BY pincode ASC LIMIT 100
PrefixResult(pincode) ==
  LET results == OrderByLimit(PincodeRows(CodeText(pincode)), 100)
      formattedResults == [i \in 1..Len(results) |-> FormatPincode(results[i])]
  IN [kind |-> "pincode-prefix-search", query |-> pincode, count |-> Len(formattedResults),
      pincodes |-> formattedResults]

PrefixQuerySettles ==
  /\ pc = "prefix_query"
  /\ \E answered \in BOOLEAN :
       IF ~answered
         THEN /\ resp' = SearchCatch("D1 query rejected")
              /\ failedCalls' = failedCalls + 1
              /\ UNCHANGED result
       ELSE /\ resp' = Ok200
            /\ result' = PrefixResult(body.pincode)
            /\ UNCHANGED failedCalls
  /\ inflight' = inflight - 1
  /\ pc' = "done"
  /\ UNCHANGED <<endpoint, body, aiCalls, fallbackCalls, dbCalls, aiOut, fromQuery, toQuery>>
  /\ UNCHANGED <<utilVars, migrationVars>>

(***************************************************************************)
(* POST /routes/estimate-by-coordinates and POST /routes/distance-haversine *)
(***************************************************************************)
\* (latitude, longitude) in hundredths of a degree; the last two are out of range
CoordinatePoints ==
  { <<2863, 7722>>, <<1308, 8027>>, <<1297, 7759>>, <<0, 0>>, <<-3387, 15121>>,
    <<9100, 7722>>, <<1308, -18100>> }

CoordinateBodies ==
  { [fromLat |-> a[1], fromLon |-> a[2], toLat |-> b[1], toLon |-> b[2]] :
      a \in CoordinatePoints, b \in CoordinatePoints }

\* z.number().min(-90).max(90) and z.number().min(-180).max(180)
CoordinateSchemaOk(b) ==
  /\ b.fromLat >= -9000 /\ b.fromLat <= 9000
  /\ b.toLat >= -9000 /\ b.toLat <= 9000
  /\ b.fromLon >= -18000 /\ b.fromLon <= 18000
  /\ b.toLon >= -18000 /\ b.toLon <= 18000

ReceiveCoordinates ==
  /\ pc = "idle"
  /\ \E b \in CoordinateBodies : body' = b
  /\ endpoint' = "estimate-by-coordinates"
  /\ pc' = "coordinates_validate"
  /\ UNCHANGED <<aiCalls, fallbackCalls, dbCalls, aiOut, fromQuery, toQuery, resp, result>>
  /\ UNCHANGED <<inflight, failedCalls, utilVars, migrationVars>>

\* EstimateRouteByCoordinates.handle after validation
CoordinatesCompute(b) ==
  LET distance == haversineKm(b.fromLat, b.fromLon, b.toLat, b.toLon)
      hours == estimateTravelTime(distance)
      tripClassification == classifyTrip(distance)
      approxPrice == calculatePrice(distance, hours)
  IN [kind |-> "estimate-by-coordinates",
      fromCoordinates |-> [lat |-> b.fromLat, lon |-> b.fromLon],
      toCoordinates |-> [lat |-> b.toLat, lon |-> b.toLon],
      distance |-> distance,
      hours |-> hours,
      isLocal |-> tripClassification.isLocal,
      isOutStation |-> tripClassification.isOutStation,
      category |-> tripClassification.category,
      approxPrice |-> approxPrice,
      method |-> "haversine"]

\* EstimateRouteByCoordinates.handle: validation, the computation, or the catch
\* (400 with code 4002); no external call is made
CoordinatesRespond ==
  /\ pc = "coordinates_validate"
  /\ IF CoordinateSchemaOk(body)
       THEN /\ resp' = Ok200
            /\ result' = CoordinatesCompute(body)
       ELSE /\ resp' = ErrorResp(400, 4002, "validation", Absent)
            /\ UNCHANGED result
  /\ pc' = "done"
  /\ UNCHANGED <<endpoint, body, aiCalls, fallbackCalls, dbCalls, aiOut, fromQuery, toQuery>>
  /\ UNCHANGED <<inflight, failedCalls, utilVars, migrationVars>>

ReceiveDistance ==
  /\ pc = "idle"
  /\ \E b \in CoordinateBodies : body' = b
  /\ endpoint' = "distance-haversine"
  /\ pc' = "distance_validate"
  /\ UNCHANGED <<aiCalls, fallbackCalls, dbCalls, aiOut, fromQuery, toQuery, resp, result>>
  /\ UNCHANGED <<inflight, failedCalls, utilVars, migrationVars>>

\* CalculateDistanceHaversine.handle after validation
DistanceCompute(b) ==
  [kind |-> "distance-haversine",
   fromCoordinates |-> [lat |-> b.fromLat, lon |-> b.fromLon],
   toCoordinates |-> [lat |-> b.toLat, lon |-> b.toLon],
   distanceKm |-> haversineKm(b.fromLat, b.fromLon, b.toLat, b.toLon),
   method |-> "haversine"]

\* CalculateDistanceHaversine.handle: validation, the computation, or the catch
\* (400 with code 4001); no external call is made
DistanceRespond ==
  /\ pc = "distance_validate"
  /\ IF CoordinateSchemaOk(body)
       THEN /\ resp' = Ok200
            /\ result' = DistanceCompute(body)
       ELSE /\ resp' = ErrorResp(400, 4001, "validation", Absent)
            /\ UNCHANGED result
  /\ pc' = "done"
  /\ UNCHANGED <<endpoint, body, aiCalls, fallbackCalls, dbCalls, aiOut, fromQuery, toQuery>>
  /\ UNCHANGED <<inflight, failedCalls, utilVars, migrationVars>>

Next ==
  \/ ReceiveEstimate
  \/ EstimateValidate
  \/ EstimateAiSettles
  \/ ReceivePincode
  \/ PincodeValidate
  \/ PincodeFromSettles
  \/ PincodeToSettles
  \/ ReceiveSearch
  \/ SearchValidate
  \/ SearchFromSettles
  \/ SearchQuerySettles
  \/ ReceivePrefixSearch
  \/ PrefixValidate
  \/ PrefixQuerySettles
  \/ ReceiveCoordinates
  \/ CoordinatesRespond
  \/ ReceiveDistance
  \/ DistanceRespond
  \/ Finish

Spec == Init /\ [][Next]_vars

(***************************************************************************)
(* The utility functions applied on their own                              *)
(***************************************************************************)
\* distances in hundredths of a km: the tier boundaries, their neighbours and
\* values inside each tier
Distances ==
  { 0, 1, 1250, 4999, 5000, 5001, 9975, 14999, 15000, 15001, 27550, 30000,
    39999, 40000, 40001, 175585 }
\* hours in hundredths; 0.25 h and 3.33 h make the time charge round
HourEstimates == { 0, 1, 25, 100, 333, 3193 }

PriceArgs ==
  { [f |-> "price", distanceKm |-> d, hoursEstimate |-> h] :
      d \in Distances, h \in HourEstimates }

\* pins whose regions differ by 0, 1, 5, 6, 20, 21 and by hundreds
FallbackPins ==
  { Str(<<6,0,0,0,0,1>>), Str(<<6,0,0,0,5,0>>), Str(<<6,0,1,0,0,1>>), Str(<<6,0,5,0,0,1>>),
    Str(<<6,0,6,0,0,1>>), Str(<<6,2,0,0,0,1>>), Str(<<6,2,1,0,0,1>>), Str(<<1,1,0,0,0,1>>) }

\* calculateFallbackPricing is applied for every draw of the grid
FallbackArgs ==
  { [f |-> "fallback", fromPin |-> a, toPin |-> b, k |-> k] :
      a \in FallbackPins, b \in FallbackPins, k \in 0..(RandDenominator - 1) }

\* straight-line distances in units of 1 / StraightPerKm km: the ends of the
\* factor bands, their neighbours, and the distances whose road distance is
\* that of a band's end
StraightLines ==
  { 0, 1, 25000, 49999, 50000, 50001, 51851, 51852, 100000, 149999, 150000, 150001,
    155769, 155770, 290000, 1162060 }

\* two destinations, the second at least as far as the first
RoadArgs ==
  { r \in [f : {"road"}, near : StraightLines, far : StraightLines] : r.near <= r.far }

UtilArgs == PriceArgs \cup FallbackArgs \cup RoadArgs

UtilInit ==
  /\ RequestIdle
  /\ MigrationIdle
  /\ fn = "none"
  /\ fnResult = NoReturn
  /\ fnArgs \in UtilArgs

ApplyClassifyTrip ==
  /\ fn = "none"
  /\ fnArgs.f = "price"
  /\ fn' = "classifyTrip"
  /\ fnResult' = classifyTrip(fnArgs.distanceKm)
  /\ UNCHANGED <<fnArgs, requestVars, migrationVars>>

ApplyCalculatePrice ==
  /\ fn = "none"
  /\ fnArgs.f = "price"
  /\ fn' = "calculatePrice"
  /\ fnResult' = [price |-> calculatePrice(fnArgs.distanceKm, fnArgs.hoursEstimate)]
  /\ UNCHANGED <<fnArgs, requestVars, migrationVars>>

ApplyCalculateFallbackPricing ==
  /\ fn = "none"
  /\ fnArgs.f = "fallback"
  /\ fn' = "calculateFallbackPricing"
  /\ fnResult' = calculateFallbackPricing(fnArgs.fromPin, fnArgs.toPin, fnArgs.k)
  /\ UNCHANGED <<fnArgs, requestVars, migrationVars>>

\* the road distance of the augmentation for the two destinations
ApplyRoadDistance ==
  /\ fn = "none"
  /\ fnArgs.f = "road"
  /\ fn' = "roadDistance"
  /\ fnResult' = [near |-> RoadDistance(fnArgs.near), far |-> RoadDistance(fnArgs.far)]
  /\ UNCHANGED <<fnArgs, requestVars, migrationVars>>

UtilNext ==
  \/ ApplyClassifyTrip
  \/ ApplyCalculatePrice
  \/ ApplyCalculateFallbackPricing
  \/ ApplyRoadDistance

UtilSpec == UtilInit /\ [][UtilNext]_vars

(***************************************************************************)
(* migrations/direct-mysql-to-d1.js: the smart-sync migration              *)
(* A pincode is written as a number, a MySQL result as the sequence of the *)
(* pincodes of its rows and the D1 table as the set of its pincodes.       *)
(***************************************************************************)
BATCH_SIZE == 500
\* a source of a few rows, and one that takes three batches
FewRows == 3
ManyRows == 2 * BATCH_SIZE + 1
\* runs of the script in one behaviour
MaxRuns == 2

Range(n) == [i \in 1..n |-> i]

\* SELECT ... FROM geo_pincode_master WHERE latitude IS NOT NULL AND longitude
\* IS NOT NULL ORDER BY pincode; the last one holds a pincode twice
SourceTables ==
  { Range(n) : n \in {0, 1, FewRows, BATCH_SIZE, BATCH_SIZE + 1, ManyRows} }
    \cup { <<1, 2, 2, 3>> }

\* the D1 table before the first run: empty, partly filled, filled
D1Tables == { {}, {0, 2}, 1..FewRows }

MigrateInit ==
  /\ RequestIdle
  /\ UtilIdle
  /\ ScriptIdle
  /\ mysqlRows \in SourceTables
  /\ d1 \in D1Tables
  /\ run = 0
  /\ d1Before = d1
  /\ previousRun = NoRun

\* node direct-mysql-to-d1.js: a new process, with fresh locals
StartRun ==
  /\ script \in {"idle", "ended", "exited"}
  /\ run < MaxRuns
  /\ run' = run + 1
  /\ previousRun' =
       IF script = "idle" THEN NoRun
       ELSE [ended |-> script, rows |-> Len(rows), imported |-> importedCount,
             skipped |-> skippedCount, errors |-> errorCount]
  /\ d1Before' = d1
  /\ script' = "fetch"
  /\ rows' = <<>>
  /\ existingPincodes' = {}
  /\ existingAnswered' = FALSE
  /\ newRecords' = <<>>
  /\ skippedCount' = 0
  /\ batchIndex' = 0
  /\ importedCount' = 0
  /\ errorCount' = 0
  /\ UNCHANGED <<mysqlRows, d1, requestVars, utilVars>>

\* mysql.createConnection and connection.execute: either throws into the outer
\* catch (process.exit(1)); an empty result ends the run
FetchRows ==
  /\ script = "fetch"
  /\ \E connected \in BOOLEAN :
       IF ~connected
         THEN /\ script' = "exited"
              /\ UNCHANGED rows
         ELSE /\ rows' = mysqlRows
              /\ script' = IF Len(mysqlRows) = 0 THEN "ended" ELSE "existing"
  /\ UNCHANGED <<mysqlRows, d1, existingPincodes, existingAnswered, newRecords, skippedCount,
                 batchIndex, importedCount, errorCount, run, d1Before, previousRun>>
  /\ UNCHANGED <<requestVars, utilVars>>

\* getExistingPincodes(): the pincodes of D1, or an empty Set when the wrangler
\* command or the parsing of its output throws
getExistingPincodes(answered) == IF answered THEN d1 ELSE {}

\* the filter that keeps every row
NewRecords_All(fetched, existing) == fetched

\* rows.filter(row => !existingPincodes.has(row.pincode))
NewRecords(fetched, existing) == SelectSeq(fetched, LAMBDA row : row \notin existing)

\* migrateMySQLtoD1 from getExistingPincodes to the start of the batch loop
CheckExisting ==
  /\ script = "existing"
  /\ \E answered \in BOOLEAN :
       LET existing == getExistingPincodes(answered)
           new == NewRecords(rows, existing)
       IN /\ existingPincodes' = existing
          /\ existingAnswered' = answered
          /\ newRecords' = new
          /\ skippedCount' = Len(rows) - Len(new)
          /\ script' = IF Len(new) = 0 THEN "ended" ELSE "batch"
  /\ UNCHANGED <<mysqlRows, d1, rows, batchIndex, importedCount, errorCount, run, d1Before,
                 previousRun>>
  /\ UNCHANGED <<requestVars, utilVars>>

\* the number of batches rounded down: a last, partial batch is left out
TotalBatches_Floor(n) == n \div BATCH_SIZE

\* Math.ceil(newRecords.length / BATCH_SIZE)
TotalBatches(n) == (n + BATCH_SIZE - 1) \div BATCH_SIZE

\* pincode is UNIQUE: an INSERT of the batch fails when its pincode is in the
\* table or was inserted earlier in the batch
ViolatesUnique(batch, table) ==
  \/ \E i \in 1..Len(batch) : batch[i] \in table
  \/ \E i \in 1..Len(batch) : \E j \in (i + 1)..Len(batch) : batch[i] = batch[j]

\* one turn of the batch loop.  Writing the temporary file is outside the try:
\* if it throws, the outer catch ends the process.  Inside the try, execSync
\* runs the INSERTs of the batch in one transaction and throws when an INSERT
\* fails or when wrangler itself fails, and then nothing is committed; the
\* append to the inserted log, which follows execSync, may throw as well.  The
\* catch counts the whole batch as errors and the loop goes on.
ImportBatch ==
  /\ script = "batch"
  /\ LET batchStart == batchIndex * BATCH_SIZE
         batchEnd ==
           IF (batchIndex + 1) * BATCH_SIZE < Len(newRecords)
             THEN (batchIndex + 1) * BATCH_SIZE
             ELSE Len(newRecords)
         batch == SubSeq(newRecords, batchStart + 1, batchEnd)
     IN \E written \in BOOLEAN, executed \in BOOLEAN, logged \in BOOLEAN :
          IF ~written
            THEN /\ script' = "exited"
                 /\ UNCHANGED <<d1, importedCount, errorCount, batchIndex>>
            ELSE /\ IF executed /\ ~ViolatesUnique(batch, d1)
                      THEN /\ d1' = d1 \cup { batch[i] : i \in 1..Len(batch) }
                           /\ IF logged
                                THEN /\ importedCount' = importedCount + Len(batch)
                                     /\ UNCHANGED errorCount
                                ELSE /\ errorCount' = errorCount + Len(batch)
                                     /\ UNCHANGED importedCount
                      ELSE /\ errorCount' = errorCount + Len(batch)
                           /\ UNCHANGED <<d1, importedCount>>
                 /\ batchIndex' = batchIndex + 1
                 /\ script' =
                      IF batchIndex + 1 < TotalBatches(Len(newRecords)) THEN "batch" ELSE "verify"
  /\ UNCHANGED <<mysqlRows, rows, existingPincodes, existingAnswered, newRecords, skippedCount,
                 run, d1Before, previousRun>>
  /\ UNCHANGED <<requestVars, utilVars>>

\* the final summary and the SELECT COUNT(*) through wrangler, which may throw
\* into the outer catch
VerifyCount ==
  /\ script = "verify"
  /\ \E verified \in BOOLEAN : script' = IF verified THEN "ended" ELSE "exited"
  /\ UNCHANGED <<mysqlRows, d1, rows, existingPincodes, existingAnswered, newRecords,
                 skippedCount, batchIndex, importedCount, errorCount, run, d1Before,
                 previousRun>>
  /\ UNCHANGED <<requestVars, utilVars>>

MigrateNext ==
  \/ StartRun
  \/ FetchRows
  \/ CheckExisting
  \/ ImportBatch
  \/ VerifyCount

MigrateSpec == MigrateInit /\ [][MigrateNext]_vars

(***************************************************************************)
(* Properties                                                              *)
(***************************************************************************)
EstimateDone == pc = "done" /\ endpoint = "estimate"
PincodeDone == pc = "done" /\ endpoint = "estimate-by-pincode"

ValidPinBody == PinSchemaOk(body.fromPin) /\ PinSchemaOk(body.toPin)

\* a number that is not NaN and not negative
NonNeg(x) == ~x.nan /\ x.v >= 0
Positive(x) == ~x.nan /\ x.v > 0

\* AI.run returned a text, and the text without its code fences is not JSON
UnparseableText ==
  /\ aiOut.shape = "string" \/ (aiOut.shape = "object" /\ aiOut.rfield = "string")
  /\ ~JsonParse(CleanedResponse(aiOut.text)).ok

\* AI.run returned, the text parsed, and a coerced field is negative
NegativeAfterCoercion ==
  /\ aiOut.shape \in {"string", "object"}
  /\ LET p == ParseAiResponse(aiOut)
     IN /\ p.ok
        /\ p.doc.k # "null"
        /\ LET r == Sanitize(body.fromPin, body.toPin, p.doc.f)
           IN \/ ~r.distance.nan /\ r.distance.v < 0
              \/ ~r.hours.nan /\ r.hours.v < 0
              \/ ~r.approxPrice.nan /\ r.approxPrice.v < 0

PinRegionDiff == Abs(Region(body.fromPin) - Region(body.toPin))
SamePrefix ==
  \A i \in 1..3 : body.fromPin.chars[i] = body.toPin.chars[i]

\* C1 (as claimed): when AI.run throws, the request falls back to the heuristic
\* and ends in a success response, never in an error response.
C1_TransportFailureFallsBack ==
  (EstimateDone /\ aiOut.shape = "throw") =>
    (resp.success /\ resp.status = 200 /\ fallbackCalls = 1)

\* C2: when the model's text, code fences stripped, is not JSON, the request uses
\* calculateFallbackPricing and ends in a success response with distance, hours,
\* isLocal, isOutStation and approxPrice populated and distance, hours and
\* approxPrice >= 0; it never ends in an error response.
C2_ParseFailureFallsBack ==
  (EstimateDone /\ UnparseableText) =>
    /\ fallbackCalls = 1
    /\ resp = Ok200
    /\ result.kind = "estimate"
    /\ NonNeg(result.distance) /\ NonNeg(result.hours) /\ NonNeg(result.approxPrice)
    /\ result.isLocal \in BOOLEAN /\ result.isOutStation \in BOOLEAN

C2_Witness ==
  /\ EstimateDone /\ UnparseableText
  /\ aiOut.text = <<Tok("prose")>>
  /\ resp.success /\ fallbackCalls = 1

\* C3: when the model output parses and a coerced distance, hours or approxPrice
\* is < 0, the request ends in the error response 500 / 5001; the fallback is not
\* invoked and no success result is returned.
C3_NegativeIsAnError ==
  (EstimateDone /\ NegativeAfterCoercion) =>
    /\ resp = EstimateCatch("Invalid calculation result from AI")
    /\ resp.status = 500 /\ resp.code = 5001 /\ ~resp.success
    /\ fallbackCalls = 0
    /\ result = NoResult

C3_Witness ==
  /\ EstimateDone /\ NegativeAfterCoercion
  /\ resp.code = 5001
  /\ fallbackCalls = 0

\* C4 (as claimed): every success response of the AI-assisted estimate carries a
\* numeric distance >= 0, hours >= 0 and approxPrice >= 0.
C4_SuccessIsNumericNonNegative ==
  (EstimateDone /\ resp.success) =>
    NonNeg(result.distance) /\ NonNeg(result.hours) /\ NonNeg(result.approxPrice)

C7_FarApartBeyond1000Km ==
  (EstimateDone /\ ValidPinBody /\ PinRegionDiff > 20) =>
    /\ resp.success
    /\ result.isOutStation /\ ~result.isLocal
    /\ ~result.distance.nan /\ result.distance.v > 100000

\* C8 (as claimed): a request whose fromPin or toPin is missing, not 6 characters
\* long or not all digits is rejected with status 400 and success = false, with
\* no model call issued and no fallback computed.
C8_InvalidPinIs400 ==
  (EstimateDone /\ ~ValidPinBody) =>
    /\ resp.status = 400 /\ ~resp.success
    /\ aiCalls = 0 /\ fallbackCalls = 0

OriginInStore == \E r \in PincodeTable : r.pincode = body.fromPincode
DestinationInStore == \E r \in PincodeTable : r.pincode = body.toPincode

\* C9: in the code-based estimate, an origin code absent from the store yields
\* the not-found error of the origin (404, 4041); an origin present with the
\* destination absent yields the not-found error of the destination (404, 4042);
\* neither returns an estimate, and neither error is given for a side that
\* was found.
C9_NotFoundNamesTheMissingSide ==
  PincodeDone =>
    /\ (fromQuery # Unset /\ ~OriginInStore) =>
         /\ resp.status = 404 /\ resp.code = 4041 /\ ~resp.success
         /\ resp.subject = body.fromPincode
         /\ resp.message = "FROM pincode not found in database"
         /\ result = NoResult
    /\ (toQuery # Unset /\ OriginInStore /\ ~DestinationInStore) =>
         /\ resp.status = 404 /\ resp.code = 4042 /\ ~resp.success
         /\ resp.subject = body.toPincode
         /\ resp.message = "TO pincode not found in database"
         /\ result = NoResult
    /\ resp.code = 4041 => ~OriginInStore
    /\ resp.code = 4042 => (OriginInStore /\ ~DestinationInStore)

C9_Witness ==
  /\ PincodeDone
  /\ body.fromPincode = Chennai /\ body.toPincode = UnknownCode
  /\ toQuery = NoRow
  /\ resp.code = 4042

\* C10 (as claimed): for every code that resolves to a record with coordinates, a
\* request with fromCode = toCode yields a success with distance = 0.00,
\* hours = 0, category "local", isLocal = true, isOutStation = false and
\* approxPrice = 50.
C10_SameCodeIsZeroLocalBaseFare ==
  ( /\ PincodeDone
    /\ body.fromPincode = body.toPincode
    /\ fromQuery # Unset /\ toQuery # Unset
    /\ fromQuery.found /\ ~fromQuery.latitude.null /\ ~fromQuery.longitude.null ) =>
    /\ resp = Ok200
    /\ result.distance = 0 /\ result.hours = 0
    /\ result.category = "local" /\ result.isLocal /\ ~result.isOutStation
    /\ result.approxPrice = 5000

(***************************************************************************)
(* Properties of the external calls and of the method tags                 *)
(***************************************************************************)
CoordinatesDone == pc = "done" /\ endpoint = "estimate-by-coordinates"
DistanceDone == pc = "done" /\ endpoint = "distance-haversine"

\* C15: within one request AI.run is called at most once and only by the
\* AI-assisted estimate; at most two lookup queries are issued, none of them by
\* the coordinate estimate, the distance-only operation or the AI-assisted
\* estimate; at most one external call is in flight at any time; and once a call
\* has rejected no further call is issued.
C15_CallsAreFewSequentialAndNotRetried ==
  /\ [](/\ aiCalls <= 1
        /\ aiCalls > 0 => endpoint = "estimate"
        /\ dbCalls <= 2
        /\ endpoint \in {"estimate", "estimate-by-coordinates", "distance-haversine"}
             => dbCalls = 0
        /\ inflight \in {0, 1}
        /\ failedCalls <= 1)
  /\ [][failedCalls > 0 =>
         (aiCalls' <= aiCalls /\ dbCalls' <= dbCalls /\ inflight' <= inflight)]_vars

C15_Witness ==
  /\ PincodeDone
  /\ dbCalls = 2 /\ aiCalls = 0
  /\ failedCalls = 1 /\ inflight = 0
  /\ resp = PincodeCatch("D1 query rejected")

\* a finished request that returned a route estimate
EstimateReturned ==
  /\ pc = "done" /\ resp.success
  /\ endpoint \in {"estimate", "estimate-by-coordinates", "distance-haversine",
                    "estimate-by-pincode"}

EstimateFields ==
  {"kind", "fromPin", "toPin", "distance", "hours", "isLocal", "isOutStation", "approxPrice"}

SearchDone == pc = "done" /\ endpoint = "search"
PrefixDone == pc = "done" /\ endpoint = "pincode-prefix-search"

\* text holds part as a run of consecutive characters
Contains(text, part) ==
  \E i \in 1..(Len(text) - Len(part) + 1) : SubSeq(text, i, i + Len(part) - 1) = part
StartsWith(text, part) ==
  Len(part) <= Len(text) /\ SubSeq(text, 1, Len(part)) = part

\* the lower-cased characters of a stored name; a NULL name has none
LowerName(name) == IF name = "" THEN <<>> ELSE toLowerCase(Spelling(name))

\* the record's city or district contains q, both lower-cased
NameContains(r, q) ==
  \/ r.city # "" /\ Contains(LowerName(r.city), toLowerCase(q))
  \/ r.district # "" /\ Contains(LowerName(r.district), toLowerCase(q))

\* the tier of a record for q: the first that applies
TierOf(r, q) ==
  LET lq == toLowerCase(q)
  IN IF r.city # "" /\ LowerName(r.city) = lq THEN 1
     ELSE IF r.district # "" /\ LowerName(r.district) = lq THEN 2
     ELSE IF r.city # "" /\ StartsWith(LowerName(r.city), lq) THEN 3
     ELSE IF r.district # "" /\ StartsWith(LowerName(r.district), lq) THEN 4
     ELSE 5

\* record a sorts before record b by (tier, code)
SortsBefore(a, b, q) ==
  \/ TierOf(a, q) < TierOf(b, q)
  \/ TierOf(a, q) = TierOf(b, q) /\ TextLess(a.pincode.chars, b.pincode.chars)

\* the record of the table a returned result stands for
RecordOf(code) == CHOOSE r \in PincodeTable : r.pincode = code

\* C13 (as claimed): for a textual query q the combined search returns only
\* records whose lower-cased city or district contains lower-cased q, in
\* ascending order of (tier, code) with the tiers 1 city equals q, 2 district
\* equals q, 3 city starts with q, 4 district starts with q, 5 substring only;
\* at most 10 are returned, and no matching record left out sorts before a
\* returned one.
C13_TextSearchRanksByTierThenCode ==
  (SearchDone /\ resp.success /\ ~isNumeric(body.query)) =>
    LET q == body.query
        returned == { result.results[i].pincode : i \in 1..Len(result.results) }
        matching == { r \in PincodeTable : NameContains(r, q) }
    IN /\ \A i \in 1..Len(result.results) :
            /\ \E r \in PincodeTable : r.pincode = result.results[i].pincode
            /\ NameContains(RecordOf(result.results[i].pincode), q)
       /\ \A i \in 1..(Len(result.results) - 1) :
            SortsBefore(RecordOf(result.results[i].pincode),
                        RecordOf(result.results[i + 1].pincode), q)
       /\ Len(result.results) <= 10
       /\ \A r \in matching :
            r.pincode \notin returned =>
              /\ Len(result.results) = 10
              /\ \A x \in returned : SortsBefore(RecordOf(x), r, q)

\* the codes of a list of results, in the order returned
CodesOf(list) == [i \in 1..Len(list) |-> list[i].pincode]

\* codes are the first n, in ascending order, of the records whose code starts
\* with the digits q
FirstByCode(codes, q, n) ==
  LET matching == { r.pincode : r \in { t \in PincodeTable : StartsWith(CodeText(t.pincode), q) } }
      returned == { codes[i] : i \in 1..Len(codes) }
  IN /\ returned \subseteq matching
     /\ \A i \in 1..(Len(codes) - 1) : TextLess(codes[i].chars, codes[i + 1].chars)
     /\ Len(codes) = IF Cardinality(matching) < n THEN Cardinality(matching) ELSE n
     /\ \A m \in matching \ returned : \A x \in returned : TextLess(x.chars, m.chars)

\* C14: for a query of digits only, the search returns exactly the first N
\* records in ascending code order among the records whose code starts with the
\* query, N = 10 in the combined search and N = 100 in the pincode-prefix search;
\* count is the number of results returned and never exceeds N.
C14_DigitSearchIsFirstNByCode ==
  /\ (SearchDone /\ resp.success /\ isNumeric(body.query)) =>
       /\ FirstByCode(CodesOf(result.results), body.query, 10)
       /\ result.count = Len(result.results)
       /\ result.count <= 10
  /\ (PrefixDone /\ resp.success) =>
       /\ FirstByCode(CodesOf(result.pincodes), CodeText(body.pincode), 100)
       /\ result.count = Len(result.pincodes)
       /\ result.count <= 100

C14_Witness ==
  /\ PrefixDone /\ resp.success
  /\ body.pincode = Str(<<6,0,0,0>>)
  /\ result.count = 100
  /\ result.pincodes[2].pincode = Str(<<6,0,0,0,0,0,0>>)
  /\ result.pincodes[100].pincode = Str(<<6,0,0,0,9,8>>)

(***************************************************************************)
(* Properties of the utility functions                                     *)
(***************************************************************************)
\* C11: classifyTrip partitions the distances >= 0 into local [0, 50),
\* short-outstation [50, 150), medium-outstation [150, 400) and long-outstation
\* [400, inf): every distance gets the one category whose interval holds it
\* (49.99 local, 50.00 short, 149.99 short, 150.00 medium, 399.99 medium, 400.00
\* long); isLocal is true exactly for local and isOutStation is its negation.
C11_ClassifyTripIsAPartition ==
  fn = "classifyTrip" =>
    LET d == fnArgs.distanceKm
        c == fnResult.category
    IN /\ c \in {"local", "short-outstation", "medium-outstation", "long-outstation"}
       /\ (c = "local") <=> (0 <= d /\ d < 5000)
       /\ (c = "short-outstation") <=> (5000 <= d /\ d < 15000)
       /\ (c = "medium-outstation") <=> (15000 <= d /\ d < 40000)
       /\ (c = "long-outstation") <=> (40000 <= d)
       /\ fnResult.isLocal <=> (c = "local")
       /\ fnResult.isOutStation <=> ~fnResult.isLocal

C11_Witness ==
  /\ fn = "classifyTrip"
  /\ fnArgs.distanceKm = 5000
  /\ fnResult.category = "short-outstation"
  /\ ~fnResult.isLocal /\ fnResult.isOutStation

\* the fare section 4.4 gives for a category: (base fare, rate per km)
TierOfCategory(category) ==
  CASE category = "local" -> [baseFare |-> 50, pricePerKm |-> 12]
    [] category = "short-outstation" -> [baseFare |-> 80, pricePerKm |-> 15]
    [] category = "medium-outstation" -> [baseFare |-> 100, pricePerKm |-> 12]
    [] category = "long-outstation" -> [baseFare |-> 120, pricePerKm |-> 10]

\* C12: for d >= 0 and h >= 0, calculatePrice(d, h) is
\* baseFare + d * pricePerKm + round(h * 60 * 2) to 2 decimals, with the tier
\* (12, 50), (15, 80), (12, 100), (10, 120) of the category classifyTrip(d)
\* gives, and it is never negative.
C12_PriceIsTierFarePlusTimeCharge ==
  fn = "calculatePrice" =>
    LET d == fnArgs.distanceKm
        h == fnArgs.hoursEstimate
        tier == TierOfCategory(classifyTrip(d).category)
        \* round(h * 60 * 2), h in hundredths: the whole rupees nearest to 1.2 * h
        timeCharge == CHOOSE t \in 0..(2 * h + 1) : 100 * t - 50 <= 120 * h /\ 120 * h < 100 * t + 50
    IN /\ fnResult.price = 100 * tier.baseFare + d * tier.pricePerKm + 100 * timeCharge
       /\ fnResult.price >= 0

C12_Witness ==
  /\ fn = "calculatePrice"
  /\ fnArgs.distanceKm = 15000 /\ fnArgs.hoursEstimate = 333
  /\ fnResult.price = 100 * (100 + 150 * 12 + 400)

(***************************************************************************)
(* Route augmentation of the combined search                               *)
(***************************************************************************)
\* the routeEstimations of a search that succeeded
Estimations ==
  IF SearchDone /\ resp.success
    THEN { result.results[i].routeEstimation : i \in 1..Len(result.results) }
           \ { NoRouteEstimation }
    ELSE {}

\* C21 (as claimed): the hours of every routeEstimation are its road distance
\* divided by a flat 50 km/h, rounded to 2 decimals, whatever the distance.
C21_HoursAreDistanceOverFlat50 ==
  \A e \in Estimations : e.hours = MathRound(e.distance, 50)

\* C21 amended: the hours of every routeEstimation are its road distance divided
\* by 40 km/h when the road distance is at most 50 km and by 50 km/h when it is
\* more, rounded to 2 decimals.
C21_HoursAreDistanceOver40Or50 ==
  \A e \in Estimations :
    /\ e.distance <= 5000 => e.hours = MathRound(e.distance, 40)
    /\ e.distance > 5000 => e.hours = MathRound(e.distance, 50)

\* Pune -> 410501 is 49.95 km by road: 1.25 h at 40 km/h, 1.00 h at 50 km/h
C21_Witness ==
  \E e \in Estimations : e.distance = 4995 /\ e.hours = 125

\* C22 (as claimed): the category of every routeEstimation is the one
\* classifyTrip assigns to the estimate's road distance: local for [0, 50),
\* short-outstation for [50, 150), medium-outstation for [150, 400),
\* long-outstation from 400 km.
C22_CategoryIsClassifyTrip ==
  \A e \in Estimations : e.category = classifyTrip(e.distance).category

\* the row holds a latitude and a longitude
HasCoordinate(row) == row.found /\ ~row.latitude.null /\ ~row.longitude.null

\* the record of the origin code of the request, when it has one that is stored
OriginRecord == IF body.fromPincode.present THEN Lookup(body.fromPincode) ELSE NoRow

\* a list of results without their routeEstimations
WithoutEstimations(list) ==
  [i \in 1..Len(list) |-> [list[i] EXCEPT !.routeEstimation = NoRouteEstimation]]

\* C23 (as claimed): in the combined search a result carries a routeEstimation
\* if and only if an origin code was supplied, the origin resolved to a record
\* with a coordinate and the result's record has a coordinate; in every other
\* case the search still succeeds, and the list of results and its order are
\* those of the search without an origin.
C23_EstimationIffOriginAndResultHaveCoordinates ==
  (SearchDone /\ SearchSchemaOk(body) /\ failedCalls = 0) =>
    /\ resp.success
    /\ \A i \in 1..Len(result.results) :
         result.results[i].routeEstimation.present <=>
           /\ HasCoordinate(OriginRecord)
           /\ HasCoordinate(RecordOf(result.results[i].pincode))
    /\ WithoutEstimations(result.results) =
         SearchResult(body.query, NoRow, SearchRows(body.query)).results

RoadDistancesReturned == fn = "roadDistance"

\* C25 (as claimed): the road distance is monotonic non-decreasing in the
\* great-circle distance: a destination that is farther in a straight line never
\* gets a smaller road distance than a nearer one.
C25_RoadDistanceIsMonotonic ==
  RoadDistancesReturned => fnResult.near <= fnResult.far

\* the band of a straight-line distance: up to 50 km, up to 150 km, beyond
FactorBand(straightLineDistance) ==
  IF straightLineDistance <= 50 * StraightPerKm THEN 1
  ELSE IF straightLineDistance <= 150 * StraightPerKm THEN 2
  ELSE 3

\* C25 amended: the road distance is monotonic non-decreasing in the
\* great-circle distance among destinations of the same factor band ([0, 50],
\* (50, 150], beyond 150 km); where the factor drops, a farther destination can
\* get a smaller road distance, by no more than the drop of the factor at the
\* band's end (2.50 km at 50 km, 7.50 km at 150 km).
C25_RoadDistanceIsMonotonicWithinABand ==
  RoadDistancesReturned =>
    /\ FactorBand(fnArgs.near) = FactorBand(fnArgs.far) => fnResult.near <= fnResult.far
    /\ FactorBand(fnArgs.near) = 1 => fnResult.near <= fnResult.far + 250
    /\ fnResult.near <= fnResult.far + 750

\* 50 km and 50.001 km in a straight line: 70.00 km and 67.50 km by road
C25_Witness ==
  /\ RoadDistancesReturned
  /\ fnArgs.near = 50000 /\ fnArgs.far = 50001
  /\ fnResult.near = 7000 /\ fnResult.far = 6750

(***************************************************************************)
(* Errors of the code-based estimate                                       *)
(***************************************************************************)
OriginRow == Lookup(body.fromPincode)
DestinationRow == Lookup(body.toPincode)

\* the row is stored with its latitude or its longitude absent
LacksCoordinate(row) == row.found /\ (row.latitude.null \/ row.longitude.null)

\* C26 (as claimed): the code-based estimate reports a side as having no
\* coordinates (404, code 4043 or 4044) only when that record's latitude or
\* longitude is absent from the store; two records with stored coordinates, a
\* latitude or longitude of 0 included, are accepted and used for the distance.
C26_NoCoordinatesOnlyWhenAbsent ==
  PincodeDone =>
    /\ resp.code = 4043 => LacksCoordinate(OriginRow)
    /\ resp.code = 4044 => LacksCoordinate(DestinationRow)
    /\ (toQuery # Unset /\ HasCoordinate(OriginRow) /\ HasCoordinate(DestinationRow)) =>
         /\ resp = Ok200
         /\ result.kind = "estimate-by-pincode"
         /\ result.fromCoordinates =
              [lat |-> OriginRow.latitude.v, lon |-> OriginRow.longitude.v]
         /\ result.toCoordinates =
              [lat |-> DestinationRow.latitude.v, lon |-> DestinationRow.longitude.v]

\* C27: in the code-based estimate, of the failures that coexist the one
\* reported is the first of: origin not found (4041), destination not found
\* (4042), origin without coordinates (4043), destination without coordinates
\* (4044); the destination lookup is issued only after the origin lookup
\* returned a record, so a request whose origin is not found issues exactly
\* one lookup.
C27_ErrorsFollowPrecedence ==
  endpoint = "estimate-by-pincode" =>
    /\ (pc = "pincode_to" \/ toQuery # Unset \/ dbCalls >= 2) =>
         (fromQuery # Unset /\ fromQuery.found)
    /\ (pc = "done" /\ fromQuery # Unset /\ ~OriginInStore) =>
         /\ resp.status = 404 /\ resp.code = 4041
         /\ dbCalls = 1 /\ toQuery = Unset
    /\ (pc = "done" /\ toQuery # Unset /\ ~DestinationInStore) =>
         /\ resp.status = 404 /\ resp.code = 4042
         /\ dbCalls = 2
    /\ (pc = "done" /\ toQuery # Unset /\ DestinationInStore /\ LacksCoordinate(OriginRow)) =>
         /\ resp.status = 404 /\ resp.code = 4043
    /\ (pc = "done" /\ resp.code = 4044) =>
         (OriginInStore /\ DestinationInStore /\ ~LacksCoordinate(OriginRow))

\* origin stored without latitude, destination not stored: 4042 is reported
C27_Witness ==
  /\ PincodeDone
  /\ body.fromPincode = NoLatCode /\ body.toPincode = UnknownCode
  /\ toQuery = NoRow
  /\ resp.code = 4042 /\ dbCalls = 2

(***************************************************************************)
(* Model output that is missing                                            *)
(***************************************************************************)
\* the model call returned an object with no response property, or an empty one
MissingModelOutput == aiOut.shape = "object" /\ aiOut.rfield \in {"missing", "empty"}

\* C20 (as claimed): when the model call returns but its output is missing, the
\* AI-assisted estimate uses the heuristic fallback; it never returns a success
\* result built from absent model fields.
C20_MissingOutputFallsBack ==
  (EstimateDone /\ MissingModelOutput) =>
    /\ fallbackCalls = 1
    /\ ~(resp.success /\ result.distance = Num(0) /\ result.hours = Num(0)
           /\ result.approxPrice = Num(0))

\* AI.run settled without throwing
ModelCallReturned == aiOut.shape \in {"string", "null", "object"}

\* C24 (as claimed): whenever the model call returns without throwing, the
\* AI-assisted estimate ends in a success result or in the error 'Invalid
\* calculation result from AI'; no other error outcome is reachable, whatever
\* JSON value the model text parses to.
C24_ReturnedCallEndsInSuccessOrInvalidResult ==
  (EstimateDone /\ ModelCallReturned) =>
    \/ resp = Ok200 /\ result.kind = "estimate"
    \/ resp = EstimateCatch("Invalid calculation result from AI")

\* C28 (as claimed): every success response of the AI-assisted estimate has
\* exactly one of isLocal and isOutStation true, on the model path as well as on
\* the fallback path.
C28_ExactlyOneOfLocalAndOutStation ==
  (EstimateDone /\ resp.success) =>
    /\ result.isLocal \in BOOLEAN /\ result.isOutStation \in BOOLEAN
    /\ result.isLocal # result.isOutStation

(***************************************************************************)
(* Properties of the heuristic fallback                                    *)
(***************************************************************************)
FallbackReturned == fn = "calculateFallbackPricing"

\* |int(first 3 digits of fromPin) - int(first 3 digits of toPin)|
ArgsRegionDiff == Abs(Region(fnArgs.fromPin) - Region(fnArgs.toPin))

\* the claimed bands, in km and km/h
ClaimedBand(regionDiff) ==
  IF regionDiff = 0 THEN [from |-> 15, to |-> 50, speed |-> 30]
  ELSE IF regionDiff \in 1..5 THEN [from |-> 80, to |-> 200, speed |-> 45]
  ELSE IF regionDiff \in 6..20 THEN [from |-> 200, to |-> 500, speed |-> 50]
  ELSE [from |-> 500, to |-> 1000, speed |-> 55]

\* hours (hundredths of an hour) is distance (hundredths of a km) over speed, up
\* to the rounding of the two returned values: distance to 0.1 km, hours to 0.01 h
HoursAreDistanceOverSpeed(hours, distance, speed) ==
  2 * Abs(hours * speed - distance) <= speed + 10

\* C18: calculateFallbackPricing returns a distance inside the band selected by
\* regionDiff (15..50 km for 0, 80..200 km for 1..5, 200..500 km for 6..20,
\* 500..1000 km otherwise), hours equal to that distance divided by the band's
\* speed (30, 45, 50, 55 km/h) up to the rounding of the returned values, and
\* isLocal = true, isOutStation = false exactly when regionDiff = 0.
C18_FallbackFollowsItsBand ==
  FallbackReturned =>
    LET band == ClaimedBand(ArgsRegionDiff)
    IN /\ fnResult.distance.t = "number" /\ fnResult.hours.t = "number"
       /\ fnResult.distance.n >= 100 * band.from
       /\ fnResult.distance.n <= 100 * band.to
       /\ HoursAreDistanceOverSpeed(fnResult.hours.n, fnResult.distance.n, band.speed)
       /\ fnResult.isLocal = FBool(ArgsRegionDiff = 0)
       /\ fnResult.isOutStation = FBool(ArgsRegionDiff # 0)

\* a draw next to 1 in the local band: 49.965 km is returned as 50.0 km
C18_Witness ==
  /\ FallbackReturned
  /\ ArgsRegionDiff = 0
  /\ fnResult.distance.n = 5000
  /\ fnResult.isLocal.b

\* C19 as stated: the approxPrice of a fallback result is what calculatePrice
\* returns for the fallback's distance and hours.
C19_FallbackPriceIsCalculatePrice ==
  FallbackReturned =>
    fnResult.approxPrice.n = calculatePrice(fnResult.distance.n, fnResult.hours.n)

\* per-km rate of section 4.4 for a distance of dn / RandDenominator km
TieredRate(dn) ==
  IF dn < 50 * RandDenominator THEN 12
  ELSE IF dn < 150 * RandDenominator THEN 15
  ELSE IF dn < 400 * RandDenominator THEN 12
  ELSE 10

\* the distance drawn, before it is rounded to 0.1 km, times RandDenominator
DrawnDistance ==
  LET band == ClaimedBand(ArgsRegionDiff)
  IN band.from * RandDenominator + fnArgs.k * (band.to - band.from)

\* C19 amended: the approxPrice of a fallback result is the flat base fare 80
\* plus the drawn distance times the tiered per-km rate (12/15/12/10), rounded
\* to a whole number, with no tiered base fare and no time surcharge.
C19_FallbackPriceIsFlatFarePlusTieredRate ==
  FallbackReturned =>
    /\ fnResult.approxPrice.t = "number"
    /\ fnResult.approxPrice.n =
         100 * MathRound(80 * RandDenominator + DrawnDistance * TieredRate(DrawnDistance),
                         RandDenominator)

\* a fallback result whose price has neither the tier's base fare nor a time
\* surcharge: 600001 -> 600050 at the lowest draw is 15 km, 0.5 h, 80 + 15 * 12
C19_Witness ==
  /\ FallbackReturned
  /\ fnArgs.k = 0 /\ ArgsRegionDiff = 0
  /\ fnResult.approxPrice.n = 26000
  /\ calculatePrice(fnResult.distance.n, fnResult.hours.n) = 29000

\* C29 (as claimed): the flags of every result of calculateFallbackPricing agree
\* with classifyTrip applied to the distance it returns: isLocal is true if and
\* only if the returned distance is below 50 km, isOutStation if and only if
\* it is 50 km or more.
C29_FallbackFlagsAgreeWithClassifyTrip ==
  FallbackReturned =>
    /\ fnResult.isLocal = FBool(classifyTrip(fnResult.distance.n).isLocal)
    /\ fnResult.isOutStation = FBool(classifyTrip(fnResult.distance.n).isOutStation)
    /\ fnResult.isLocal.b <=> fnResult.distance.n < 5000
    /\ fnResult.isOutStation.b <=> fnResult.distance.n >= 5000

(***************************************************************************)
(* Properties of the migration                                             *)
(***************************************************************************)
\* the run before the current one reached its end with every fetched record
\* inserted, or skipped because D1 already held it
PreviousRunInsertedEvery ==
  /\ run >= 2
  /\ previousRun.ended \in {"ended", "exited"}
  /\ previousRun.rows = Len(mysqlRows)
  /\ previousRun.errors = 0
  /\ previousRun.imported + previousRun.skipped = previousRun.rows

\* the current run is past its check of the existing pincodes
PastExistenceCheck == script \in {"batch", "verify", "ended"}

ReachedSummary == script = "verify" \/ (script \in {"ended", "exited"} /\ batchIndex > 0 /\
                                          batchIndex = TotalBatches(Len(newRecords)))

\* the records of the batch the loop is at
CurrentBatch ==
  SubSeq(newRecords, batchIndex * BATCH_SIZE + 1,
         IF (batchIndex + 1) * BATCH_SIZE < Len(newRecords)
           THEN (batchIndex + 1) * BATCH_SIZE ELSE Len(newRecords))

\* a turn of the batch loop that is completed counts its whole batch once:
\* as inserted, and then the batch is in D1, or as errors
BatchIsCountedOnce ==
  (script = "batch" /\ batchIndex' = batchIndex + 1) =>
    /\ skippedCount' = skippedCount
    /\ \/ /\ importedCount' = importedCount + Len(CurrentBatch)
          /\ errorCount' = errorCount
          /\ \A i \in 1..Len(CurrentBatch) : CurrentBatch[i] \in d1' \ d1
       \/ /\ importedCount' = importedCount
          /\ errorCount' = errorCount + Len(CurrentBatch)
    /\ (errorCount' > 0 /\ batchIndex' < TotalBatches(Len(newRecords))) => script' = "batch"

\* C30: in every run of the migration that reaches its final summary, inserted
\* count + skipped count + error count is the number of records fetched; a
\* record counts as inserted only if its batch executed successfully, a failed
\* batch counts all of its records as errors, and the batches after a failed
\* batch are still processed.
C30_EveryFetchedRecordIsCountedOnce ==
  /\ [](ReachedSummary =>
          /\ importedCount + skippedCount + errorCount = Len(rows)
          /\ batchIndex = TotalBatches(Len(newRecords))
          /\ importedCount <= Cardinality(d1 \ d1Before))
  /\ [][BatchIsCountedOnce]_vars

\* three batches, the second failed: 500 + 1 inserted, 500 errors
C30_Witness ==
  /\ ReachedSummary
  /\ Len(rows) = ManyRows /\ skippedCount = 0
  /\ importedCount = BATCH_SIZE + 1 /\ errorCount = BATCH_SIZE
  /\ d1 \ d1Before = (1..BATCH_SIZE) \cup {ManyRows}

====
